---- MODULE Spec2Model ----
(***************************************************************************)
(* Search Pattern Discovery Service: the trigger endpoint and its running  *)
(* flag (app/main.py), the batch runner and its per-domain tasks           *)
(* (app/worker.py), the strategy chain (app/detector.py, app/strategies)   *)
(* and the store (app/db.py).                                              *)
(*                                                                         *)
(* One asyncio event loop runs everything: a step of the model is the code *)
(* a coroutine runs between two suspensions (awaits of browser            *)
(* operations).  The supabase client is synchronous, so a store call is    *)
(* part of the step that makes it.                                         *)
(***************************************************************************)
EXTENDS Integers, Sequences, FiniteSets, TLC

\* ------------------------------------------------------------------ bounds
NumDomains == 3          \* rows of ses_base_url
MaxTriggers == 2         \* POST /run-batch requests
MaxBatches == 1          \* run_batch calls that find rows to work on (Spec)
MaxLoopBatches == 3      \* the same, when one row is unprocessed (SpecLoop)
NumInputSelectors == 2   \* prefix of INPUT_SELECTORS that is probed
NumIconSelectors == 1    \* prefix of ICON_SELECTORS that is probed
NumUrlPatterns == 1      \* prefix of SEARCH_URL_PATTERNS that is probed
MaxUrlTokens == 2        \* tokens of the URL of a page validate_search reads
MaxOriginalUrlTokens == 1  \* tokens of the original_url it is given
MaxPathSegments == 4     \* segments of the path of a link that is classified
NumSelectorGroups == 2   \* prefix of ARTICLE_LINK_SELECTOR_GROUPS that is used
MaxGroupSelectors == 2   \* prefix of each selector group that is used
MaxDay == 3              \* days (0..MaxDay) that article dates and the cutoff span
TicksPerDay == 2         \* instants of a day that are told apart
MaxRawTokens == 3        \* tokens of a raw date string that is normalised
NumDetailSelectors == 2  \* prefix of TITLE_, DATE_ and TEXT_SELECTORS that is used
MaxTotal == 12           \* value up to which main's total_processed is told apart
NavRaises == 2           \* attempts of one navigation of the Url strategy that raise, at most
MaxKeywordTokens == 2    \* tokens of a keyword, at most
MaxFallbackEvents == 2   \* entries of FALLBACK_PATTERNS that do not just fail, at most
MaxLinks == 2            \* links on a results page, at most
NumArticles == 22        \* article URLs that phase 2 visits, at most
MaxDropped == 1          \* articles the date filter drops, at most
MaxInsertFaults == 1     \* inserts of one call that raise, at most

\* --------------------------------------------------------------- constants
DOMAIN_CONCURRENCY == 2
BATCH_SIZE == 100
INPUT_CONFIDENCE_THRESHOLD == 3
ICON_CONFIDENCE_THRESHOLD == 3
URL_CONFIDENCE_THRESHOLD == 2
NETWORK_CONFIDENCE == 4
EMPTY_CONTENT_LIMIT == 500
MIN_RESULT_LINKS == 5
SCORE_CAP == 6
TEST_KEYWORD == "automationtest123"
MIN_ANCHOR_TEXT_LEN == 20
HTML_MIN_SEGMENTS == 4
MIN_PATH_SEGMENTS == 2
DATE_PREFIX_LEN == 25
FAST_TIMEOUT == 8000
SLOW_TIMEOUT == 15000
INSERT_BATCH_SIZE == 20
BODY_MIN_LEN == 100

Domains == 1..NumDomains
Runners == 1..MaxTriggers

\* for attempt in range(2)
NavigationAttempts == 2

INPUT_SELECTORS ==
  SubSeq(<<"input[type='search']", "input[name='q']", "input[name='query']",
           "input[name='s']">>, 1, NumInputSelectors)
ICON_SELECTORS ==
  SubSeq(<<"button[aria-label*='search']", "button[aria-label*='Search']",
           "button[title*='search']">>, 1, NumIconSelectors)
SEARCH_URL_PATTERNS ==
  SubSeq(<<"/search?q={}", "/search?query={}", "/search?keyword={}">>,
         1, NumUrlPatterns)

\* ------------------------------------------------------------ python values
None == [tag |-> "None"]
\* bool(x) of a dict-or-None
Truthy(r) == r # None
\* dict.get(key, default)
Get(r, key, default) == IF key \in DOMAIN r THEN r[key] ELSE default

\* What execute_search hands back: a (score, result_type) pair produced by
\* validate_search, or (0, "none") when the element is missing or a page
\* operation raised.
ExecuteSearchOutcomes ==
  { <<0, "none">>, <<2, "search-url">>, <<3, "ajax">> }

\* What validate_search hands back to the Url strategy: always the pair.
ValidateSearchOutcomes ==
  { <<0, "empty">>, <<4, "redirect">> }

\* hrefs the Fallback scan can meet first
FallbackHrefs == { "/search-archive" }

\* ------------------------------------------------------- strategies (pure)
Min(S) == CHOOSE x \in S : \A y \in S : x <= y

\* One pass of the Input strategy's loop body for one selector.  o says what
\* the page did: o.kind = "skip" when the element is absent, invisible, of a
\* non-text type or an operation raised (continue); otherwise the field was
\* filled and Enter pressed, captured tells whether self.captured_request is
\* set by then, first is execute_search's answer, submit whether a visible
\* submit button was clicked, second execute_search's answer after the click.
InputAttemptOutcomes ==
  { [kind |-> "skip"] }
  \cup { [kind |-> "filled", captured |-> TRUE, first |-> <<0, "none">>,
          submit |-> FALSE, second |-> <<0, "none">>] }
  \cup { [kind |-> "filled", captured |-> FALSE, first |-> f,
          submit |-> FALSE, second |-> f] :
           f \in ExecuteSearchOutcomes }
  \cup { [kind |-> "filled", captured |-> FALSE, first |-> f,
          submit |-> TRUE, second |-> g] :
           f \in { e \in ExecuteSearchOutcomes : e[1] < INPUT_CONFIDENCE_THRESHOLD },
           g \in ExecuteSearchOutcomes }

\* (Before it, the pass with the validation consulted ahead of the network
\* observer.)
InputAttempt_ValidatorFirst(selector, o) ==
  IF o.kind = "skip" THEN None
  ELSE IF o.first[1] >= INPUT_CONFIDENCE_THRESHOLD
    THEN [method |-> "input", pattern |-> selector,
          confidence |-> o.first[1], result_type |-> o.first[2]]
  ELSE IF o.captured
    THEN [method |-> "input", pattern |-> selector,
          confidence |-> NETWORK_CONFIDENCE, result_type |-> "network"]
  ELSE IF o.submit /\ o.second[1] >= INPUT_CONFIDENCE_THRESHOLD
    THEN [method |-> "input", pattern |-> selector,
          confidence |-> o.second[1], result_type |-> o.second[2]]
  ELSE None

InputAttempt(selector, o) ==
  IF o.kind = "skip" THEN None
  ELSE IF o.captured
    THEN [method |-> "input", pattern |-> selector,
          confidence |-> NETWORK_CONFIDENCE, result_type |-> "network"]
  ELSE IF o.first[1] >= INPUT_CONFIDENCE_THRESHOLD
    THEN [method |-> "input", pattern |-> selector,
          confidence |-> o.first[1], result_type |-> o.first[2]]
  ELSE IF o.submit /\ o.second[1] >= INPUT_CONFIDENCE_THRESHOLD
    THEN [method |-> "input", pattern |-> selector,
          confidence |-> o.second[1], result_type |-> o.second[2]]
  ELSE None

\* One pass of the Icon strategy's loop body for one icon selector: skipped,
\* or clicked and then execute_search for every input selector in order;
\* subs[i] is the answer for INPUT_SELECTORS[i].
IconAttemptOutcomes ==
  { [kind |-> "skip", subs |-> <<>>] }
  \cup { [kind |-> "clicked", subs |-> s] :
           s \in [1..Len(INPUT_SELECTORS) -> ExecuteSearchOutcomes] }

\* (Before it, the pass that takes the first sub-attempt with a positive
\* score.)
IconAttempt_AnyScore(selector, o) ==
  IF o.kind = "skip" THEN None
  ELSE LET hits == { i \in DOMAIN o.subs : o.subs[i][1] > 0 }
       IN IF hits = {} THEN None
          ELSE [method |-> "icon", pattern |-> selector,
                confidence |-> o.subs[Min(hits)][1],
                result_type |-> o.subs[Min(hits)][2]]

IconAttempt(selector, o) ==
  IF o.kind = "skip" THEN None
  ELSE LET hits == { i \in DOMAIN o.subs :
                       o.subs[i][1] >= ICON_CONFIDENCE_THRESHOLD }
       IN IF hits = {} THEN None
          ELSE [method |-> "icon", pattern |-> selector,
                confidence |-> o.subs[Min(hits)][1],
                result_type |-> o.subs[Min(hits)][2]]

\* Python's  (score, result_type) >= int : '>=' is not supported between
\* instances of 'tuple' and 'int'.
TupleGeInt(t, n) == "TypeError"

\* One pass of the Url strategy's loop body for one template.  status is the
\* response status of safe_goto (0: no response), prefilters whether the
\* three checks on the landed page pass, validated what validate_search
\* returned; the name score is bound to that pair.
UrlAttemptOutcomes ==
  { [status |-> st, prefilters |-> pf, validated |-> v] :
      st \in {0, 200, 404}, pf \in BOOLEAN, v \in ValidateSearchOutcomes }

UrlAttempt(pattern, o) ==
  IF o.status # 200 THEN None
  ELSE IF ~o.prefilters THEN None
  ELSE LET score == o.validated
       IN IF TupleGeInt(score, URL_CONFIDENCE_THRESHOLD) = "TypeError"
            THEN None          \* except: continue
          ELSE [method |-> "url", pattern |-> pattern,
                confidence |-> score, result_type |-> "url"]

\* Fallback: the first anchor whose href contains "search", if any.
FallbackOutcomes == { "" } \cup FallbackHrefs

FallbackExecute(href) ==
  IF href = "" THEN None
  ELSE [method |-> "fallback", pattern |-> href]

\* detector.py: the order of the chain (and, before it, the chain with the
\* first two entries swapped)
Strategies_IconFirst == << "icon", "input", "url", "fallback" >>
Strategies == << "input", "icon", "url", "fallback" >>

\* -------------------------------------------------------------------- store
NoRow == [tag |-> "NoRow"]

Row(base_url_id, result) ==
  [base_url_id |-> base_url_id,
   method      |-> Get(result, "method", "null"),
   pattern     |-> Get(result, "pattern", "null"),
   confidence  |-> Get(result, "confidence", "null"),
   result_type |-> Get(result, "result_type", "null")]

\* fault: which of the two store calls raises ("none", "upsert", "update")
SaveFaults == { "none", "upsert", "update" }

\* A variant that marks the domain processed before, and whatever becomes
\* of, the upsert.
save_search_pattern_mark_first(row, flag, base_url_id, result, fault) ==
  IF ~Truthy(result) THEN << row, flag >>
  ELSE IF Get(result, "confidence", 0) <= 0 THEN << row, flag >>
  ELSE IF fault = "update" THEN << row, flag >>
  ELSE IF fault = "upsert" THEN << row, TRUE >>
  ELSE << Row(base_url_id, result), TRUE >>

\* save_search_pattern on the domain's pattern row and processed flag:
\* << row', flag' >>
save_search_pattern(row, flag, base_url_id, result, fault) ==
  IF ~Truthy(result) THEN << row, flag >>
  ELSE IF Get(result, "confidence", 0) <= 0 THEN << row, flag >>
  ELSE IF fault = "upsert" THEN << row, flag >>
  ELSE IF fault = "update" THEN << Row(base_url_id, result), flag >>
  ELSE << Row(base_url_id, result), TRUE >>

\* fetch_unprocessed_base_urls(limit): the possible answers, each a set of
\* base_url_id with search_processed = False, at most limit of them; [] when
\* the query raises.
fetch_unprocessed_base_urls(flags, limit) ==
  LET unprocessed == { d \in DOMAIN flags : ~flags[d] }
      n == IF Cardinality(unprocessed) <= limit
             THEN Cardinality(unprocessed) ELSE limit
  IN { S \in SUBSET unprocessed : Cardinality(S) = n } \cup { {} }

\* worker.py: if result and result.get("confidence", 0) > 0 (and, before
\* it, the test without its second half)
ShouldSave_AnyResult(result) == Truthy(result)
ShouldSave(result) == Truthy(result) /\ Get(result, "confidence", 0) > 0

\* main.py: if is_running: return (and, before it, the guard left out)
AlreadyRunning_NoGuard(flag) == FALSE
AlreadyRunning(flag) == flag

\* worker.py: asyncio.gather(*tasks, return_exceptions=True) (and, before
\* it, gather's default)
return_exceptions_false == FALSE
return_exceptions == TRUE

\* worker.py: except Exception as e.  The kinds raised in the try block:
\* "Error" (a playwright error or timeout of a page operation, or any other
\* Exception) and "TimeoutError" (asyncio.wait_for's); both derive from
\* Exception.  (Before it, a handler for TimeoutError alone.)
IsException_TimeoutOnly(kind) == kind = "TimeoutError"
IsException(kind) == kind \in { "Error", "TimeoutError" }

\* -------------------------------------------------------------------- state
VARIABLES
  is_running,        \* main.py: the module-level flag
  runner,            \* per trigger: where its background_runner is
  search_processed,  \* ses_base_url.search_processed, per base_url_id
  patterns,          \* base_url_search_patterns, keyed by base_url_id
  batch,             \* the domains of the batch run_batch is working on
  budget,            \* run_batch calls the model still follows
  semaphore,         \* free slots of run_batch's asyncio.Semaphore
  task,              \* per domain: the state of its process_domain task
  call               \* a call of one of the library functions, with its
                     \* arguments and, once it has returned, its result

vars == << is_running, runner, search_processed, patterns, batch, budget,
          semaphore, task, call >>

\* No library function is being followed.
NoCall == [fn |-> "none"]

\* A process_domain task before it exists / as gather creates it.
\*   pc        where the coroutine is suspended
\*   idx       position in the selector or template list being iterated
\*   attempt   the navigation loop's variable
\*   success   the navigation loop's flag
\*   context, page   "none" | "open" | "closed"
\*   executed  the strategies whose execute() detect_search has called
\*   result    what detect_search returned
\*   outcome   "saved" | "notfound" | "error" (logged) | "raised" (escaped)
\*   timedOut  asyncio.wait_for's timeout fired and cancelled detect_search
\*             (kept while wait_for is pending)
\*   saveFault the store call that raised inside save_search_pattern
\*   rowBefore the domain's pattern row when the task was created
\* The locals of the try block are dropped when its finally clause has
\* started (Finished).
IdleTask ==
  [pc |-> "idle", idx |-> 0, attempt |-> 0, success |-> FALSE,
   context |-> "none", page |-> "none", executed |-> <<>>, result |-> None,
   outcome |-> "", timedOut |-> FALSE, saveFault |-> "none",
   rowBefore |-> NoRow]

NewTask(row) == [IdleTask EXCEPT !.pc = "acquire", !.rowBefore = row]

Finished(t) ==
  [IdleTask EXCEPT !.pc = t.pc, !.context = t.context, !.page = t.page,
                   !.outcome = t.outcome]

Init ==
  /\ is_running = FALSE
  /\ runner = [r \in Runners |-> "none"]
  /\ search_processed = [d \in Domains |-> FALSE]
  /\ patterns = [d \in Domains |-> NoRow]
  /\ batch = {}
  /\ budget = MaxBatches
  /\ semaphore = DOMAIN_CONCURRENCY
  /\ task = [d \in Domains |-> IdleTask]
  /\ call = NoCall

\* --------------------------------------------------------- main.py actions
\* POST /run-batch: background_tasks.add_task(background_runner)
run_batch_endpoint(r) ==
  /\ runner[r] = "none"
  /\ \A q \in Runners : q < r => runner[q] # "none"
  /\ runner' = [runner EXCEPT ![r] = "queued"]
  /\ UNCHANGED << is_running, search_processed, patterns, batch, budget, semaphore, task, call >>

\* main(): one turn of the while loop up to its first suspension: fetch the
\* unprocessed rows; break (and let background_runner's finally reset the
\* flag) when there are none, else run_batch(domains) creates the semaphore
\* and suspends in the browser launch.
MainLoop(r) ==
  \E domains \in fetch_unprocessed_base_urls(search_processed, BATCH_SIZE) :
    /\ domains # {} => budget > 0
    /\ budget' = IF domains = {} THEN budget ELSE budget - 1
    /\ IF domains = {}
      THEN /\ is_running' = FALSE
           /\ runner' = [runner EXCEPT ![r] = "returned"]
           /\ batch' = {}
           /\ task' = [d \in Domains |-> IdleTask]
           /\ semaphore' = DOMAIN_CONCURRENCY
      ELSE /\ is_running' = TRUE
           /\ runner' = [runner EXCEPT ![r] = "launch"]
           /\ batch' = domains
           /\ task' = [d \in Domains |->
                         IF d \in domains THEN NewTask(patterns[d]) ELSE IdleTask]
           /\ semaphore' = DOMAIN_CONCURRENCY

\* Background tasks start in the order they were added.
background_runner(r) ==
  /\ runner[r] = "queued"
  /\ \A q \in Runners : q < r => runner[q] # "queued"
  /\ IF AlreadyRunning(is_running)
       THEN /\ runner' = [runner EXCEPT ![r] = "rejected"]
            /\ UNCHANGED << is_running, batch, budget, semaphore, task >>
       ELSE MainLoop(r)
  /\ UNCHANGED << search_processed, patterns, call >>

\* -------------------------------------------------------- run_batch actions
\* p.chromium.launch returns: gather creates one task per domain.
Launch(r) ==
  /\ runner[r] = "launch"
  /\ runner' = [runner EXCEPT ![r] = "gather"]
  /\ UNCHANGED << is_running, search_processed, patterns, batch, budget, semaphore, task, call >>

\* (The launch raising in a background_runner without its try/finally.)
LaunchFails_NoFinally(r) ==
  /\ runner[r] = "launch"
  /\ runner' = [runner EXCEPT ![r] = "launch_failed"]
  /\ batch' = {}
  /\ task' = [d \in Domains |-> IdleTask]
  /\ UNCHANGED << is_running, search_processed, patterns, budget, semaphore, call >>

\* The launch raises: the exception leaves run_batch and main, and
\* background_runner's finally resets the flag.
LaunchFails(r) ==
  /\ runner[r] = "launch"
  /\ runner' = [runner EXCEPT ![r] = "launch_failed"]
  /\ is_running' = FALSE
  /\ batch' = {}
  /\ task' = [d \in Domains |-> IdleTask]
  /\ UNCHANGED << search_processed, patterns, budget, semaphore, call >>

\* gather returns once every task is done; run_batch then awaits
\* browser.close().
GatherReturns(r) ==
  /\ runner[r] = "gather"
  /\ \A d \in batch : task[d].pc = "done"
  /\ runner' = [runner EXCEPT ![r] = "close_browser"]
  /\ UNCHANGED << is_running, search_processed, patterns, batch, budget, semaphore, task, call >>

\* browser.close() returns (every context of the browser is gone), run_batch
\* returns and main takes the next turn of its loop.
BrowserClosed(r) ==
  /\ runner[r] = "close_browser"
  /\ MainLoop(r)
  /\ UNCHANGED << search_processed, patterns, call >>

\* ---------------------------------------------------- process_domain steps
Gathering == \E r \in Runners : runner[r] = "gather"

Running(d) == d \in batch /\ Gathering

SetTask(d, t) == task' = [task EXCEPT ![d] = t]

\* async with semaphore: waiters are woken in the order the tasks were
\* created.
Acquire(d) ==
  /\ Running(d)
  /\ task[d].pc = "acquire"
  /\ semaphore > 0
  /\ \A e \in batch : e < d => task[e].pc # "acquire"
  /\ semaphore' = semaphore - 1
  /\ SetTask(d, [task[d] EXCEPT !.pc = "new_context"])
  /\ UNCHANGED << is_running, runner, search_processed, patterns, batch, budget, call >>

\* context = await browser.new_context(...)
NewContext(d) ==
  /\ Running(d)
  /\ task[d].pc = "new_context"
  /\ SetTask(d, [task[d] EXCEPT !.pc = "route", !.context = "open"])
  /\ UNCHANGED << is_running, runner, search_processed, patterns, batch, budget, semaphore, call >>

\* await context.route(...)
Route(d) ==
  /\ Running(d)
  /\ task[d].pc = "route"
  /\ SetTask(d, [task[d] EXCEPT !.pc = "new_page"])
  /\ UNCHANGED << is_running, runner, search_processed, patterns, batch, budget, semaphore, call >>

\* page = await context.new_page()
NewPage(d) ==
  /\ Running(d)
  /\ task[d].pc = "new_page"
  /\ SetTask(d, [task[d] EXCEPT !.pc = "goto", !.page = "open"])
  /\ UNCHANGED << is_running, runner, search_processed, patterns, batch, budget, semaphore, call >>

\* An exception leaves process_domain: the semaphore's __aexit__ releases the
\* slot and gather gets the exception.  With return_exceptions it is one more
\* result; without, gather raises it into run_batch at once, run_batch and
\* main are left through it and the unfinished sibling tasks are abandoned.
Escapes(d, t) ==
  /\ semaphore' = semaphore + 1
  /\ IF return_exceptions
       THEN /\ SetTask(d, [Finished(t) EXCEPT !.pc = "done", !.outcome = "raised"])
            /\ UNCHANGED << is_running, runner >>
       ELSE /\ task' = [e \in Domains |->
                  IF e = d THEN [Finished(t) EXCEPT !.pc = "done", !.outcome = "raised"]
                  ELSE IF e \in batch /\ task[e].pc # "done"
                    THEN [task[e] EXCEPT !.pc = "abandoned"]
                  ELSE task[e]]
            /\ is_running' = FALSE
            /\ runner' = [r \in Runners |->
                  IF runner[r] = "gather" THEN "gather_raised" ELSE runner[r]]

\* (A semaphore acquired by hand, with no release when the set-up raises.)
SetupFails_KeepsSlot(d) ==
  /\ Running(d)
  /\ task[d].pc \in { "new_context", "route", "new_page" }
  /\ SetTask(d, [Finished(task[d]) EXCEPT !.pc = "done", !.outcome = "raised"])
  /\ UNCHANGED << is_running, runner, search_processed, patterns, batch, budget, semaphore, call >>

\* new_context, route or new_page raises: none of them is inside the try.
SetupFails(d) ==
  /\ Running(d)
  /\ task[d].pc \in { "new_context", "route", "new_page" }
  /\ Escapes(d, task[d])
  /\ UNCHANGED << search_processed, patterns, batch, budget, call >>

\* detect_search: Strategy(page, base_url).execute() for the n-th strategy,
\* up to its first suspension.
FirstPc(name) == IF name = "url" THEN "url_new_page" ELSE name

Enter(t, n) ==
  [t EXCEPT !.pc = FirstPc(Strategies[n]), !.idx = 1,
            !.executed = Append(@, Strategies[n])]

\* execute() returned r: detect_search returns it if truthy, else goes on to
\* the next strategy, and returns None after the last.
StrategyReturned(t, r) ==
  IF Truthy(r) THEN [t EXCEPT !.pc = "wait_for", !.result = r]
  ELSE IF Len(t.executed) < Len(Strategies) THEN Enter(t, Len(t.executed) + 1)
  ELSE [t EXCEPT !.pc = "wait_for", !.result = None]

\* An exception of kind `kind` reaches the try block's handlers of
\* process_domain; the finally clause runs in either case.
Raised(t, kind) ==
  IF IsException(kind)
    THEN [t EXCEPT !.pc = "close_page", !.outcome = "error", !.timedOut = FALSE]
    ELSE [t EXCEPT !.pc = "close_page", !.outcome = "raised", !.timedOut = FALSE]

\* One turn of the navigation loop: page.goto and the stabilization wait.
Goto(d) ==
  /\ Running(d)
  /\ task[d].pc = "goto"
  /\ \E ok \in BOOLEAN :
       LET t == task[d]
       IN SetTask(d,
            IF ok                                     \* success = True; break
              THEN Enter([t EXCEPT !.success = TRUE, !.attempt = 0], 1)
            ELSE IF t.attempt = 1 THEN Raised(t, "Error")    \* raise
            ELSE IF t.attempt + 1 < NavigationAttempts       \* next attempt
              THEN [t EXCEPT !.attempt = @ + 1]
            ELSE [t EXCEPT !.pc = "close_page",       \* if not success: return
                           !.outcome = "notfound"])
  /\ UNCHANGED << is_running, runner, search_processed, patterns, batch, budget, semaphore, call >>

\* InputSearchStrategy.execute: one selector of the loop.
InputProbe(d) ==
  /\ Running(d)
  /\ task[d].pc = "input"
  /\ \E o \in InputAttemptOutcomes :
       LET t == task[d]
           r == InputAttempt(INPUT_SELECTORS[t.idx], o)
       IN SetTask(d,
            IF Truthy(r) \/ t.idx = Len(INPUT_SELECTORS)
              THEN StrategyReturned(t, r)
              ELSE [t EXCEPT !.idx = @ + 1])
  /\ UNCHANGED << is_running, runner, search_processed, patterns, batch, budget, semaphore, call >>

\* IconSearchStrategy.execute: one icon selector of the loop.
IconProbe(d) ==
  /\ Running(d)
  /\ task[d].pc = "icon"
  /\ \E o \in IconAttemptOutcomes :
       LET t == task[d]
           r == IconAttempt(ICON_SELECTORS[t.idx], o)
       IN SetTask(d,
            IF Truthy(r) \/ t.idx = Len(ICON_SELECTORS)
              THEN StrategyReturned(t, r)
              ELSE [t EXCEPT !.idx = @ + 1])
  /\ UNCHANGED << is_running, runner, search_processed, patterns, batch, budget, semaphore, call >>

\* UrlSearchStrategy.execute: temp_page = await context.new_page()
UrlNewPage(d) ==
  /\ Running(d)
  /\ task[d].pc = "url_new_page"
  /\ SetTask(d, [task[d] EXCEPT !.pc = "url"])
  /\ UNCHANGED << is_running, runner, search_processed, patterns, batch, budget, semaphore, call >>

\* UrlSearchStrategy.execute: one template of the loop.
UrlProbe(d) ==
  /\ Running(d)
  /\ task[d].pc = "url"
  /\ \E o \in UrlAttemptOutcomes :
       LET t == task[d]
           r == UrlAttempt(SEARCH_URL_PATTERNS[t.idx], o)
       IN SetTask(d,
            IF Truthy(r) THEN [t EXCEPT !.pc = "url_close", !.result = r]
            ELSE IF t.idx = Len(SEARCH_URL_PATTERNS) THEN [t EXCEPT !.pc = "url_close"]
            ELSE [t EXCEPT !.idx = @ + 1])
  /\ UNCHANGED << is_running, runner, search_processed, patterns, batch, budget, semaphore, call >>

\* finally: await temp_page.close(), then the return
UrlClose(d) ==
  /\ Running(d)
  /\ task[d].pc = "url_close"
  /\ SetTask(d, StrategyReturned([task[d] EXCEPT !.result = None], task[d].result))
  /\ UNCHANGED << is_running, runner, search_processed, patterns, batch, budget, semaphore, call >>

\* The two awaits of the Url strategy that no handler covers raise: the
\* exception leaves execute and detect_search, and wait_for passes it on.
UrlRaises(d) ==
  /\ Running(d)
  /\ task[d].pc \in { "url_new_page", "url_close" }
  /\ SetTask(d, Raised([task[d] EXCEPT !.result = None], "Error"))
  /\ UNCHANGED << is_running, runner, search_processed, patterns, batch, budget, semaphore, call >>

\* FallbackStrategy.execute
FallbackProbe(d) ==
  /\ Running(d)
  /\ task[d].pc = "fallback"
  /\ \E href \in FallbackOutcomes :
       SetTask(d, StrategyReturned(task[d], FallbackExecute(href)))
  /\ UNCHANGED << is_running, runner, search_processed, patterns, batch, budget, semaphore, call >>

\* -------------------------------------------- asyncio.wait_for(detect_search)
\* The timeout fires while detect_search is suspended in a page operation:
\* CancelledError is raised at that await.  Inside the Input, Icon and Url
\* loops every await sits under a bare `except:` (in the strategy, in
\* safe_goto, in execute_search or in get_page_hash), which catches it; the
\* loop goes on.
TimeoutSwallowed(d) ==
  /\ Running(d)
  /\ task[d].pc \in { "input", "icon", "url" }
  /\ ~task[d].timedOut
  /\ SetTask(d, [task[d] EXCEPT !.timedOut = TRUE])
  /\ UNCHANGED << is_running, runner, search_processed, patterns, batch, budget, semaphore, call >>

\* In the Fallback strategy the bare `except: pass` catches it and execute
\* returns None.
TimeoutInFallback(d) ==
  /\ Running(d)
  /\ task[d].pc = "fallback"
  /\ ~task[d].timedOut
  /\ SetTask(d, StrategyReturned([task[d] EXCEPT !.timedOut = TRUE], None))
  /\ UNCHANGED << is_running, runner, search_processed, patterns, batch, budget, semaphore, call >>

\* At the two awaits of the Url strategy outside any handler the
\* cancellation ends detect_search and wait_for raises TimeoutError.
TimeoutCancels(d) ==
  /\ Running(d)
  /\ task[d].pc \in { "url_new_page", "url_close" }
  /\ ~task[d].timedOut
  /\ SetTask(d, Raised([task[d] EXCEPT !.timedOut = TRUE, !.result = None],
                       "TimeoutError"))
  /\ UNCHANGED << is_running, runner, search_processed, patterns, batch, budget, semaphore, call >>

\* detect_search has returned and wait_for hands its result to
\* process_domain (also after a cancellation that was swallowed, from Python
\* 3.9 on): the persistence decision and save_search_pattern, whose store
\* calls are synchronous.
WaitForReturns(d) ==
  /\ Running(d)
  /\ task[d].pc = "wait_for"
  /\ LET result == task[d].result
     IN IF ShouldSave(result)
          THEN \E fault \in SaveFaults :
                 LET saved == save_search_pattern(patterns[d], search_processed[d],
                                                  d, result, fault)
                 IN /\ patterns' = [patterns EXCEPT ![d] = saved[1]]
                    /\ search_processed' = [search_processed EXCEPT ![d] = saved[2]]
                    /\ SetTask(d, [task[d] EXCEPT !.pc = "close_page",
                                                  !.outcome = "saved",
                                                  !.saveFault = fault,
                                                  !.timedOut = FALSE])
          ELSE /\ SetTask(d, [task[d] EXCEPT !.pc = "close_page",
                                             !.outcome = "notfound",
                                             !.timedOut = FALSE])
               /\ UNCHANGED << patterns, search_processed >>
  /\ UNCHANGED << is_running, runner, batch, budget, semaphore, call >>

\* Python 3.8: after a timeout wait_for raises TimeoutError whatever the
\* cancelled coroutine went on to return.
WaitForTimesOut(d) ==
  /\ Running(d)
  /\ task[d].pc = "wait_for"
  /\ task[d].timedOut
  /\ SetTask(d, Raised([task[d] EXCEPT !.result = None], "TimeoutError"))
  /\ UNCHANGED << is_running, runner, search_processed, patterns, batch, budget, semaphore, call >>

\* ------------------------------------------------------------------ finally
\* try: await page.close() / except: pass
ClosePage(d) ==
  /\ Running(d)
  /\ task[d].pc = "close_page"
  /\ \E ok \in BOOLEAN :
       SetTask(d, [Finished(task[d]) EXCEPT !.pc = "close_context",
                                            !.page = IF ok THEN "closed" ELSE @])
  /\ UNCHANGED << is_running, runner, search_processed, patterns, batch, budget, semaphore, call >>

\* await context.close() (it closes the context's pages too); the task ends
\* and the semaphore slot is released.
CloseContext(d) ==
  /\ Running(d)
  /\ task[d].pc = "close_context"
  /\ LET t == [task[d] EXCEPT !.context = "closed", !.page = "closed"]
     IN IF t.outcome = "raised"
          THEN Escapes(d, t)
          ELSE /\ semaphore' = semaphore + 1
               /\ SetTask(d, [t EXCEPT !.pc = "done"])
               /\ UNCHANGED << is_running, runner >>
  /\ UNCHANGED << search_processed, patterns, batch, budget, call >>

\* --------------------------------------------------------------------- spec
Next ==
  \/ \E r \in Runners :
       \/ run_batch_endpoint(r)
       \/ background_runner(r)
       \/ Launch(r)
       \/ LaunchFails(r)
       \/ GatherReturns(r)
       \/ BrowserClosed(r)
  \/ \E d \in Domains :
       \/ Acquire(d)
       \/ NewContext(d)
       \/ Route(d)
       \/ NewPage(d)
       \/ SetupFails(d)
       \/ Goto(d)
       \/ InputProbe(d)
       \/ IconProbe(d)
       \/ UrlNewPage(d)
       \/ UrlProbe(d)
       \/ UrlClose(d)
       \/ UrlRaises(d)
       \/ FallbackProbe(d)
       \/ TimeoutSwallowed(d)
       \/ TimeoutInFallback(d)
       \/ TimeoutCancels(d)
       \/ WaitForReturns(d)
       \/ WaitForTimesOut(d)
       \/ ClosePage(d)
       \/ CloseContext(d)

Spec == Init /\ [][Next]_vars

\* The event loop runs every task that is ready, and every page operation a
\* task awaits returns or raises: a task that can take a step takes one.
TaskStep(d) ==
  \/ Acquire(d)
  \/ NewContext(d)
  \/ Route(d)
  \/ NewPage(d)
  \/ SetupFails(d)
  \/ Goto(d)
  \/ InputProbe(d)
  \/ IconProbe(d)
  \/ UrlNewPage(d)
  \/ UrlProbe(d)
  \/ UrlClose(d)
  \/ UrlRaises(d)
  \/ FallbackProbe(d)
  \/ TimeoutSwallowed(d)
  \/ TimeoutInFallback(d)
  \/ TimeoutCancels(d)
  \/ WaitForReturns(d)
  \/ WaitForTimesOut(d)
  \/ ClosePage(d)
  \/ CloseContext(d)

\* The service when every trigger but the last has come and gone, its fetch
\* having returned nothing (the query raised): no row is processed yet.
InitFair ==
  /\ is_running = FALSE
  /\ runner = [r \in Runners |-> IF r = MaxTriggers THEN "none" ELSE "returned"]
  /\ search_processed = [d \in Domains |-> FALSE]
  /\ patterns = [d \in Domains |-> NoRow]
  /\ batch = {}
  /\ budget = MaxBatches
  /\ semaphore = DOMAIN_CONCURRENCY
  /\ task = [d \in Domains |-> IdleTask]
  /\ call = NoCall

SpecFair ==
  InitFair /\ [][Next]_vars /\ \A d \in Domains : WF_vars(TaskStep(d))

\* The service some runs later: every row but the first has been processed
\* (its pattern saved by an earlier run), so each batch holds one domain and
\* main's loop is followed for several turns.
SeedRow(d) ==
  Row(d, [method |-> "input", pattern |-> INPUT_SELECTORS[1],
          confidence |-> NETWORK_CONFIDENCE, result_type |-> "network"])

InitLoop ==
  /\ is_running = FALSE
  /\ runner = [r \in Runners |-> "none"]
  /\ search_processed = [d \in Domains |-> d # 1]
  /\ patterns = [d \in Domains |-> IF d = 1 THEN NoRow ELSE SeedRow(d)]
  /\ batch = {}
  /\ budget = MaxLoopBatches
  /\ semaphore = DOMAIN_CONCURRENCY
  /\ task = [d \in Domains |-> IdleTask]
  /\ call = NoCall

SpecLoop == InitLoop /\ [][Next]_vars

\* ------------------------------------------------------------- validator.py
\* A string is a sequence of tokens (the empty string is << >>): "/" is the
\* slash, "?q=" a search indicator, "?Q=" the same in upper case, "x" any
\* other text.
UrlTokens == { "/", "?Q=", "x" }

SeqsUpTo(S, n) == UNION { [1..k -> S] : k \in 0..n }

Urls == SeqsUpTo(UrlTokens, MaxUrlTokens)
OriginalUrls == SeqsUpTo(UrlTokens, MaxOriginalUrlTokens)

\* An argument that was passed (None is the default of all three).
Some(x) == [tag |-> "Some", val |-> x]

\* bool(s) of a str-or-None
TruthyStr(s) == s # None /\ s.val # <<>>

\* str.lower, token by token
Lower(tok) ==
  CASE tok = "?Q=" -> "?q="
    [] tok = "Tag" -> "tag"
    [] tok = "PDF" -> "pdf"
    [] OTHER -> tok

\* str.rstrip("/")
RECURSIVE RStripSlash(_)
RStripSlash(u) ==
  IF u # <<>> /\ u[Len(u)] = "/" THEN RStripSlash(SubSeq(u, 1, Len(u) - 1))
  ELSE u

\* any(x in new_url.lower() for x in ["search", "?q=", "?s=", "query="])
SEARCH_TOKENS == { "search", "?q=", "?s=", "query=" }
HasSearchToken(u) == \E i \in DOMAIN u : Lower(u[i]) \in SEARCH_TOKENS

\* The rendered content of a page, by what validate_search asks of it: its
\* length and whether it holds the keyword, one of the result phrases, one of
\* the modal words.  The empty content holds none of them.
ContentLens == { 0, EMPTY_CONTENT_LIMIT - 1, EMPTY_CONTENT_LIMIT }
Contents ==
  { c \in [len : ContentLens, keyword : BOOLEAN, indicator : BOOLEAN,
           modal : BOOLEAN] :
      c.len = 0 => ~c.keyword /\ ~c.indicator /\ ~c.modal }
NoContent == [len |-> 0, keyword |-> FALSE, indicator |-> FALSE, modal |-> FALSE]

\* page.query_selector_all("a"): it raises, or returns n elements.
LinkReads ==
  { [ok |-> FALSE, n |-> 0], [ok |-> TRUE, n |-> MIN_RESULT_LINKS - 1],
    [ok |-> TRUE, n |-> MIN_RESULT_LINKS] }

\* A page as validate_search reads it: readable is whether page.content()
\* returns in validate_search, hashable whether it returns in get_page_hash.
Pages ==
  { p \in [url : Urls, readable : BOOLEAN, content : Contents,
           hashable : BOOLEAN, links : LinkReads] :
      ~p.readable => (p.content = NoContent /\ ~p.hashable) }

\* get_page_hash: the md5 of the content stands for the content itself; None
\* when the content is empty or the read raises.
get_page_hash(page) ==
  IF ~page.readable \/ ~page.hashable THEN None
  ELSE IF page.content.len = 0 THEN None
  ELSE Some(page.content)

\* if len(content) < 500 (and, before it, the test left out)
TooShort_Never(len) == FALSE
TooShort(len) == len < EMPTY_CONTENT_LIMIT

\* if score > 6: score = 6 (and, before it, the score left as it is)
Cap_None(score) == score
Cap(score) == IF score > SCORE_CAP THEN SCORE_CAP ELSE score

\* (The sum without the points of the AJAX rule.)
RawScore_NoAjaxPoints(page, original_url, original_hash, keyword) ==
  LET new_url == page.url
      changed == TruthyStr(original_url)
                   /\ RStripSlash(new_url) # RStripSlash(original_url.val)
      new_hash == get_page_hash(page)
      differs == original_hash # None /\ new_hash # None
                   /\ new_hash # original_hash
  IN (IF changed THEN 2 ELSE 0)
     + (IF HasSearchToken(new_url) THEN 2 ELSE 0)
     + (IF differs THEN 1 ELSE 0)
     + (IF TruthyStr(keyword) /\ page.content.keyword THEN 1 ELSE 0)
     + (IF page.content.indicator THEN 1 ELSE 0)
     + (IF page.links.ok /\ page.links.n >= MIN_RESULT_LINKS THEN 1 ELSE 0)

\* The sum of the signals before the cap.
RawScore(page, original_url, original_hash, keyword) ==
  LET new_url == page.url
      same == TruthyStr(original_url)
                /\ RStripSlash(new_url) = RStripSlash(original_url.val)
      changed == TruthyStr(original_url)
                   /\ RStripSlash(new_url) # RStripSlash(original_url.val)
      new_hash == get_page_hash(page)
      differs == original_hash # None /\ new_hash # None
                   /\ new_hash # original_hash
  IN (IF changed THEN 2 ELSE 0)
     + (IF HasSearchToken(new_url) THEN 2 ELSE 0)
     + (IF differs THEN 1 ELSE 0)
     + (IF TruthyStr(keyword) /\ page.content.keyword THEN 1 ELSE 0)
     + (IF page.content.indicator THEN 1 ELSE 0)
     + (IF page.links.ok /\ page.links.n >= MIN_RESULT_LINKS THEN 1 ELSE 0)
     + (IF same /\ differs THEN 2 ELSE 0)

\* (The label when the modal rule fills in an unknown label only.)
ResultType_ModalIfUnknown(page, original_url, original_hash) ==
  LET new_url == page.url
      same == TruthyStr(original_url)
                /\ RStripSlash(new_url) = RStripSlash(original_url.val)
      changed == TruthyStr(original_url)
                   /\ RStripSlash(new_url) # RStripSlash(original_url.val)
      new_hash == get_page_hash(page)
      differs == original_hash # None /\ new_hash # None
                   /\ new_hash # original_hash
      t1 == IF changed THEN "redirect" ELSE "unknown"
      t2 == IF HasSearchToken(new_url) /\ t1 = "unknown" THEN "search-url" ELSE t1
      t3 == IF differs /\ t2 = "unknown" THEN "same-page" ELSE t2
      t7 == IF same /\ differs THEN "ajax" ELSE t3
  IN IF page.content.modal /\ t7 = "unknown" THEN "modal" ELSE t7

\* The label, each rule overwriting or keeping the one before.
ResultType(page, original_url, original_hash) ==
  LET new_url == page.url
      same == TruthyStr(original_url)
                /\ RStripSlash(new_url) = RStripSlash(original_url.val)
      changed == TruthyStr(original_url)
                   /\ RStripSlash(new_url) # RStripSlash(original_url.val)
      new_hash == get_page_hash(page)
      differs == original_hash # None /\ new_hash # None
                   /\ new_hash # original_hash
      t1 == IF changed THEN "redirect" ELSE "unknown"
      t2 == IF HasSearchToken(new_url) /\ t1 = "unknown" THEN "search-url" ELSE t1
      t3 == IF differs /\ t2 = "unknown" THEN "same-page" ELSE t2
      t7 == IF same /\ differs THEN "ajax" ELSE t3
  IN IF page.content.modal THEN "modal" ELSE t7

\* validate_search(page, original_url, original_hash, keyword):
\* << score, result_type >>
validate_search(page, original_url, original_hash, keyword) ==
  IF ~page.readable THEN << 0, "error" >>
  ELSE IF TooShort(page.content.len) THEN << 0, "empty" >>
  ELSE << Cap(RawScore(page, original_url, original_hash, keyword)),
          ResultType(page, original_url, original_hash) >>

\* The calls of validate_search that are followed.
BaselineContents ==
  { [len |-> EMPTY_CONTENT_LIMIT, keyword |-> FALSE, indicator |-> FALSE,
     modal |-> FALSE],
    [len |-> EMPTY_CONTENT_LIMIT, keyword |-> TRUE, indicator |-> TRUE,
     modal |-> TRUE] }

ValidateArgs ==
  [ page : Pages,
    original_url : { None } \cup { Some(u) : u \in OriginalUrls },
    original_hash : { None } \cup { Some(c) : c \in BaselineContents },
    keyword : { None, Some(<<>>), Some(<< TEST_KEYWORD >>) } ]

\* The service at rest, while a library function is followed.
ServiceIdle ==
  /\ is_running = FALSE
  /\ runner = [r \in Runners |-> "none"]
  /\ search_processed = [d \in Domains |-> FALSE]
  /\ patterns = [d \in Domains |-> NoRow]
  /\ batch = {}
  /\ budget = 0
  /\ semaphore = DOMAIN_CONCURRENCY
  /\ task = [d \in Domains |-> IdleTask]

ServiceUnchanged ==
  UNCHANGED << is_running, runner, search_processed, patterns, batch, budget,
               semaphore, task >>

InitValidate ==
  /\ ServiceIdle
  /\ call \in { [fn |-> "validate_search", args |-> a, done |-> FALSE,
                 ret |-> << 0, "" >>] : a \in ValidateArgs }

validate_search_returns ==
  /\ call.fn = "validate_search"
  /\ ~call.done
  /\ call' = [call EXCEPT !.done = TRUE,
                          !.ret = validate_search(call.args.page,
                                                  call.args.original_url,
                                                  call.args.original_hash,
                                                  call.args.keyword)]
  /\ ServiceUnchanged

NextValidate == validate_search_returns

SpecValidate == InitValidate /\ [][NextValidate]_vars

\* ------------------------------------- executor.py and the Input strategy
\* execute_search(page, input_selector): the baseline is read from the page
\* as it is when execute_search is called; `found` is whether the selector
\* matches on that page, `raises` whether a page operation raises, `after`
\* the page once the field was filled, Enter pressed and 3 s waited.
execute_search(before, found, raises, after) ==
  IF ~found \/ raises THEN << 0, "none" >>
  ELSE validate_search(after, Some(before.url), get_page_hash(before),
                       Some(<< TEST_KEYWORD >>))

\* Pages of a site: its seed page, its result page for the test keyword
\* (same layout as any result page: ten links), the result page when it
\* prints the keyword and a "results for" line, and a stub of under 500
\* characters.  "x" is the base URL, the rest what follows it.
SeedPage ==
  [url |-> << "x" >>, readable |-> TRUE, hashable |-> TRUE,
   content |-> [len |-> EMPTY_CONTENT_LIMIT, keyword |-> FALSE,
                indicator |-> FALSE, modal |-> FALSE, body |-> "seed"],
   links |-> [ok |-> TRUE, n |-> MIN_RESULT_LINKS]]
ResultPage ==
  [url |-> << "x", "?q=", TEST_KEYWORD >>, readable |-> TRUE, hashable |-> TRUE,
   content |-> [len |-> EMPTY_CONTENT_LIMIT, keyword |-> FALSE,
                indicator |-> FALSE, modal |-> FALSE, body |-> "results"],
   links |-> [ok |-> TRUE, n |-> MIN_RESULT_LINKS + MIN_RESULT_LINKS]]
ResultPageEcho ==
  [url |-> << "x", "?q=", TEST_KEYWORD >>, readable |-> TRUE, hashable |-> TRUE,
   content |-> [len |-> EMPTY_CONTENT_LIMIT, keyword |-> TRUE,
                indicator |-> TRUE, modal |-> FALSE, body |-> "results for"],
   links |-> [ok |-> TRUE, n |-> MIN_RESULT_LINKS + MIN_RESULT_LINKS]]
StubPage ==
  [url |-> << "x" >>, readable |-> TRUE, hashable |-> TRUE,
   content |-> [len |-> EMPTY_CONTENT_LIMIT - 1, keyword |-> FALSE,
                indicator |-> FALSE, modal |-> FALSE, body |-> "stub"],
   links |-> [ok |-> TRUE, n |-> 0]]
SitePages == { SeedPage, ResultPage, ResultPageEcho, StubPage }

\* How a site answers the Input strategy:
\*   candidates    the positions in INPUT_SELECTORS of the selectors that
\*                 match a visible element of a text type on the seed page
\*   captured      the request handler has seen a search-like request by the
\*                 time the first such field is filled, Enter pressed and
\*                 the load state waited for
\*   capturedLater it sees one after that check, before the first field's
\*                 pass is over, and none from then on (captured_request
\*                 is never reset)
\*   landing       the page after fill + Enter
\*   still         the selector matches on the page execute_search is given
\*   after         the page after execute_search's own fill + Enter
\*   submit        a visible submit button is found and clicked
\*   clicked       the page after the click (and after the fill + Enter of
\*                 the execute_search that follows)
Sites ==
  [ candidates : SUBSET (1..Len(INPUT_SELECTORS)),
    captured : BOOLEAN, capturedLater : BOOLEAN,
    landing : SitePages, still : BOOLEAN, after : SitePages,
    submit : BOOLEAN, clicked : SitePages ]

\* What the loop body meets for a matching selector, given whether
\* self.captured_request is set by its check.
SiteOutcome(site, captured) ==
  [kind |-> "filled", captured |-> captured,
   first |-> execute_search(site.landing, site.still, FALSE, site.after),
   submit |-> site.submit,
   second |-> execute_search(site.clicked, site.still, FALSE, site.clicked)]

\* InputSearchStrategy.execute from selector i on.
RECURSIVE InputExecuteFrom(_, _, _)
InputExecuteFrom(site, i, captured) ==
  IF i > Len(INPUT_SELECTORS) THEN None
  ELSE IF i \notin site.candidates
    THEN InputExecuteFrom(site, i + 1, captured)
  ELSE LET seen == captured \/ site.captured
           r == InputAttempt(INPUT_SELECTORS[i], SiteOutcome(site, seen))
       IN IF Truthy(r) THEN r
          ELSE InputExecuteFrom(site, i + 1, seen \/ site.capturedLater)

InputExecute(site) == InputExecuteFrom(site, 1, FALSE)

\* self.page.on("request", handler): one more handler registered on the
\* page; no statement of the strategy removes it.
attach_network_listener(handlers) == handlers + 1

InitInput ==
  /\ ServiceIdle
  /\ call \in { [fn |-> "InputSearchStrategy.execute", site |-> s,
                 handlers |-> 0, done |-> FALSE, ret |-> None] :
                  s \in Sites }

InputExecute_returns ==
  /\ call.fn = "InputSearchStrategy.execute"
  /\ ~call.done
  /\ call' = [call EXCEPT !.done = TRUE,
                          !.handlers = attach_network_listener(@),
                          !.ret = InputExecute(call.site)]
  /\ ServiceUnchanged

NextInput == InputExecute_returns

SpecInput == InitInput /\ [][NextInput]_vars

\* ------------------------------------------------ strategies/url_strategy.py
\* current_url = temp_page.url.lower()
LowerUrl(u) == [i \in DOMAIN u |-> Lower(u[i])]

\* "search" in current_url or "q=" in current_url: of the tokens, "search"
\* and "?q=" hold one of the two.
URL_PREFILTER_TOKENS == { "search", "?q=" }

\* self.base_url: the base URL "x", as stored or with a trailing slash.
BaseUrls == { << "x" >>, << "x", "/" >> }

\* for timeout in [self.FAST_TIMEOUT, self.SLOW_TIMEOUT] (and, before it, a
\* list with a third attempt)
SAFE_GOTO_TIMEOUTS_Three == << FAST_TIMEOUT, SLOW_TIMEOUT, SLOW_TIMEOUT >>
SAFE_GOTO_TIMEOUTS == << FAST_TIMEOUT, SLOW_TIMEOUT >>

\* One navigation: how many attempts of page.goto raise before one returns,
\* and the status of the response it returns (0: no response, as when
\* every attempt raises).
NavOutcomes ==
  { n \in [raising : 0..NavRaises, status : {0, 200, 404}] :
      n.raising >= Len(SAFE_GOTO_TIMEOUTS) => n.status = 0 }

\* safe_goto(page, url): the response status, and the timeouts of the
\* attempts made.
safe_goto(nav) ==
  IF nav.raising >= Len(SAFE_GOTO_TIMEOUTS)
    THEN [status |-> 0, timeouts |-> SAFE_GOTO_TIMEOUTS]
  ELSE [status |-> nav.status,
        timeouts |-> SubSeq(SAFE_GOTO_TIMEOUTS, 1, nav.raising + 1)]

\* How a site answers the Url strategy: each template's navigation, the
\* page the navigations land on (its content is never hashed:
\* original_hash is None), and whether context.new_page() or
\* temp_page.close() raises.
UrlSites ==
  [ navs : [1..Len(SEARCH_URL_PATTERNS) -> NavOutcomes],
    page : { p \in Pages : p.hashable = p.readable },
    pages : { "ok", "new_page_raises", "close_raises" } ]

\* The three checks on the landed page that precede the validation; the
\* anchor query raising ends the pass as a failed check does.
UrlPrefilters(page, base_url) ==
  LET current_url == LowerUrl(page.url)
  IN /\ \E i \in DOMAIN current_url : current_url[i] \in URL_PREFILTER_TOKENS
     /\ RStripSlash(current_url) # RStripSlash(base_url)
     /\ page.links.ok /\ page.links.n >= MIN_RESULT_LINKS

\* What the loop body meets for template i.
UrlSiteOutcome(site, i, base_url) ==
  [status |-> safe_goto(site.navs[i]).status,
   prefilters |-> UrlPrefilters(site.page, base_url),
   validated |-> validate_search(site.page, Some(base_url), None,
                                 Some(<< TEST_KEYWORD >>))]

\* UrlSearchStrategy.execute from template i on.
RECURSIVE UrlExecuteFrom(_, _, _)
UrlExecuteFrom(site, i, base_url) ==
  IF i > Len(SEARCH_URL_PATTERNS) THEN None
  ELSE LET r == UrlAttempt(SEARCH_URL_PATTERNS[i],
                           UrlSiteOutcome(site, i, base_url))
       IN IF Truthy(r) THEN r ELSE UrlExecuteFrom(site, i + 1, base_url)

UrlExecute(site, base_url) ==
  IF site.pages = "ok" THEN UrlExecuteFrom(site, 1, base_url) ELSE None

\* What execute does to the pages: whether an exception leaves it, the
\* state of the temporary page, the attempts of page.goto made on it for
\* each template tried (by their timeouts), those made on self.page (there
\* is none in the code), and the calls of temp_page.close().
UrlEffects(site, base_url) ==
  IF site.pages = "new_page_raises"
    THEN [raised |-> TRUE, temp_page |-> "none", temp_gotos |-> <<>>,
          page_gotos |-> <<>>, close_calls |-> 0]
  ELSE LET hits == { i \in 1..Len(SEARCH_URL_PATTERNS) :
                       Truthy(UrlAttempt(SEARCH_URL_PATTERNS[i],
                                         UrlSiteOutcome(site, i, base_url))) }
           tried == IF hits = {} THEN Len(SEARCH_URL_PATTERNS) ELSE Min(hits)
       IN [raised |-> site.pages = "close_raises",
           temp_page |-> IF site.pages = "close_raises" THEN "open"
                         ELSE "closed",
           temp_gotos |-> [i \in 1..tried |-> safe_goto(site.navs[i]).timeouts],
           page_gotos |-> <<>>,
           close_calls |-> 1]

InitUrl ==
  /\ ServiceIdle
  /\ call \in { [fn |-> "UrlSearchStrategy.execute", site |-> s,
                 base_url |-> b, done |-> FALSE, ret |-> None,
                 effects |-> [raised |-> FALSE, temp_page |-> "none",
                              temp_gotos |-> <<>>, page_gotos |-> <<>>,
                              close_calls |-> 0]] :
                  s \in UrlSites, b \in BaseUrls }

UrlExecute_returns ==
  /\ call.fn = "UrlSearchStrategy.execute"
  /\ ~call.done
  /\ call' = [call EXCEPT !.done = TRUE,
                          !.ret = UrlExecute(call.site, call.base_url),
                          !.effects = UrlEffects(call.site, call.base_url)]
  /\ ServiceUnchanged

NextUrl == UrlExecute_returns

SpecUrl == InitUrl /\ [][NextUrl]_vars

\* ----------------------------------------------- strategies/icon_strategy.py
\* An element that an input selector matches: whether it is visible and its
\* type attribute.
InputTypes == { "search", "text", "email", "password", "tel", "number" }
Elements == [visible : BOOLEAN, type : InputTypes]

\* The types of the elements a selector can match: of the selectors
\* followed, input[type='search'] alone names one.
MatchableTypes(selector) ==
  IF selector = "input[type='search']" THEN { "search" } ELSE InputTypes

\* element.fill(keyword) in execute_search: playwright fills an element
\* once it is visible, and refuses text for a number input; otherwise the
\* call raises.  No test precedes it in execute_search.
Fillable(el) == el.visible /\ el.type # "number"

\* How a site answers the Icon strategy:
\*   icons     for each icon selector: no element, a hidden one, a visible
\*             one, or an operation on it raises
\*   revealed  the page once a visible icon was clicked
\*   elements  for each input selector, the element it matches then (None:
\*             no element)
\*   after     the page after a fill + Enter
IconKinds == { "absent", "hidden", "visible", "raises" }
IconSites ==
  { s \in [ icons : [1..Len(ICON_SELECTORS) -> IconKinds],
            revealed : SitePages,
            elements : [1..Len(INPUT_SELECTORS) -> Elements \cup { None }],
            after : SitePages ] :
      \A i \in 1..Len(INPUT_SELECTORS) :
        s.elements[i] # None =>
          s.elements[i].type \in MatchableTypes(INPUT_SELECTORS[i]) }

\* for input_selector in INPUT_SELECTORS: execute_search(self.page,
\* input_selector), from selector i on with the page as it is then: for each
\* selector the answer, the element filled (if any) and the page left.
RECURSIVE IconSubsFrom(_, _, _)
IconSubsFrom(site, i, page) ==
  IF i > Len(INPUT_SELECTORS) THEN <<>>
  ELSE LET el == site.elements[i]
           filled == el # None /\ Fillable(el)
           left == IF filled THEN site.after ELSE page
       IN << [res |-> execute_search(page, el # None, el # None /\ ~filled,
                                     site.after),
              filled |-> IF filled THEN { el } ELSE {},
              page |-> left] >>
          \o IconSubsFrom(site, i + 1, left)

\* IconSearchStrategy.execute from icon selector k on:
\* [result, fills], fills the elements the keyword was filled into.
RECURSIVE IconExecuteFrom(_, _, _)
IconExecuteFrom(site, k, fills) ==
  IF k > Len(ICON_SELECTORS) THEN [result |-> None, fills |-> fills]
  ELSE IF site.icons[k] # "visible"
    THEN IconExecuteFrom(site, k + 1, fills)
  ELSE LET subs == IconSubsFrom(site, 1, site.revealed)
           o == [kind |-> "clicked",
                 subs |-> [i \in DOMAIN subs |-> subs[i].res]]
           r == IconAttempt(ICON_SELECTORS[k], o)
           hits == { i \in DOMAIN subs :
                       subs[i].res[1] >= ICON_CONFIDENCE_THRESHOLD }
           last == IF hits = {} THEN Len(subs) ELSE Min(hits)
           done == fills \cup UNION { subs[i].filled : i \in 1..last }
       IN IF Truthy(r) THEN [result |-> r, fills |-> done]
          ELSE IconExecuteFrom(site, k + 1, done)

IconExecute(site) == IconExecuteFrom(site, 1, {})

InitIcon ==
  /\ ServiceIdle
  /\ call \in { [fn |-> "IconSearchStrategy.execute", site |-> s,
                 done |-> FALSE, ret |-> None, fills |-> {}] :
                  s \in IconSites }

IconExecute_returns ==
  /\ call.fn = "IconSearchStrategy.execute"
  /\ ~call.done
  /\ call' = [call EXCEPT !.done = TRUE,
                          !.ret = IconExecute(call.site).result,
                          !.fills = IconExecute(call.site).fills]
  /\ ServiceUnchanged

NextIcon == IconExecute_returns

SpecIcon == InitIcon /\ [][NextIcon]_vars

\* ------------------------------------------------ db.py: save_search_pattern
\* The results save_search_pattern can be handed: None, a Fallback pattern
\* (no confidence), an Input pattern with each of the scores followed.
SaveResults ==
  { None }
  \cup { FallbackExecute(h) : h \in FallbackHrefs }
  \cup { [method |-> "input", pattern |-> INPUT_SELECTORS[1],
          confidence |-> e[1], result_type |-> e[2]] :
           e \in ExecuteSearchOutcomes }

\* A call: the domain's pattern row and processed flag before it, its
\* arguments, and which store call raises.
SaveCalls ==
  UNION { { [fn |-> "save_search_pattern", base_url_id |-> d, row |-> r,
             flag |-> f, result |-> res, fault |-> ft, done |-> FALSE,
             ret |-> << r, f >>] :
              r \in { NoRow, SeedRow(d) }, f \in BOOLEAN,
              res \in SaveResults, ft \in SaveFaults } : d \in Domains }

InitSave ==
  /\ ServiceIdle
  /\ call \in SaveCalls

save_search_pattern_returns ==
  /\ call.fn = "save_search_pattern"
  /\ ~call.done
  /\ call' = [call EXCEPT !.done = TRUE,
                          !.ret = save_search_pattern(call.row, call.flag,
                                                      call.base_url_id,
                                                      call.result, call.fault)]
  /\ ServiceUnchanged

NextSave == save_search_pattern_returns

SpecSave == InitSave /\ [][NextSave]_vars

\* ------------------------------- base-url-to-article/main.py: the classifier
\* The path of a URL (urlparse(url).path) is the sequence of its segments,
\* the text between two slashes; a segment is the sequence of its parts, the
\* text between two dots (<< >> is the empty segment that a doubled or a
\* trailing slash leaves).
PathSegments ==
  { <<>>, << "news" >>, << "Tag" >>, << "story", "PDF" >>,
    << "story", "html" >> }

Paths == SeqsUpTo(PathSegments, MaxPathSegments)

\* The seed page's path: the root, a section, a page two levels down.
BasePaths == { <<>>, << << "news" >> >>, << << "news" >>, << "news" >> >> }

NON_ARTICLE_EXTENSIONS_NoDocuments ==
  { "jpg", "jpeg", "png", "gif", "svg", "zip", "xml", "json", "css", "js" }
NON_ARTICLE_EXTENSIONS ==
  { "pdf", "jpg", "jpeg", "png", "gif", "svg", "zip", "xml", "json", "css",
    "js" }

\* The members of NON_ARTICLE_PATH_SEGMENTS that the paths can meet.
NON_ARTICLE_PATH_SEGMENTS ==
  { "topics", "topic", "category", "categories", "cat", "tag", "tags",
    "author", "page", "archive", "search", "login", "shop" }

\* path.rstrip("/")
RECURSIVE RStripPath(_)
RStripPath(path) ==
  IF path # <<>> /\ path[Len(path)] = <<>>
    THEN RStripPath(SubSeq(path, 1, Len(path) - 1))
  ELSE path

\* [s for s in path.split("/") if s]
NonEmptySegments(path) == SelectSeq(path, LAMBDA s : s # <<>>)

\* the extension of a segment of lower_path: the text after its last dot,
\* "" when it has no dot
Extension(seg) ==
  IF Len(seg) >= 2 THEN Lower(seg[Len(seg)]) ELSE ""

\* seg.lower() in NON_ARTICLE_PATH_SEGMENTS
Denylisted(seg) ==
  Len(seg) = 1 /\ Lower(seg[1]) \in NON_ARTICLE_PATH_SEGMENTS

\* An anchor text: body characters between lead-or-trail whitespace of pad
\* characters; (anchor_text or "").strip() has body characters.
AnchorTexts ==
  { None }
  \cup { Some([body |-> b, pad |-> p]) :
           b \in { 0, 1, MIN_ANCHOR_TEXT_LEN - 1, MIN_ANCHOR_TEXT_LEN },
           p \in { 0, MIN_ANCHOR_TEXT_LEN } }

StrippedLen(anchor_text) ==
  IF anchor_text = None THEN 0 ELSE anchor_text.val.body

\* if text and len(text) < MIN_ANCHOR_TEXT_LEN (and, before it, the test
\* left out)
AnchorTooShort_Never(len) == FALSE
AnchorTooShort(len) == len > 0 /\ len < MIN_ANCHOR_TEXT_LEN

\* is_likely_article_url(url, anchor_text, base_url): << keep, reason >>
is_likely_article_url(url, anchor_text, base_url) ==
  LET path == RStripPath(url)
      text == StrippedLen(anchor_text)
      last_seg == IF path = <<>> THEN <<>> ELSE path[Len(path)]
      ext == Extension(last_seg)
      segs == NonEmptySegments(path)
  IN IF AnchorTooShort(text) THEN << FALSE, "anchor text too short" >>
     ELSE IF ext \in NON_ARTICLE_EXTENSIONS
       THEN << FALSE, "non-article extension" >>
     ELSE IF ext \in { "html", "htm" } /\ Len(segs) < HTML_MIN_SEGMENTS
       THEN << FALSE, ".html shallow path" >>
     ELSE IF \E i \in DOMAIN segs : Denylisted(segs[i])
       THEN << FALSE, "non-article path segment" >>
     ELSE IF Len(segs) < MIN_PATH_SEGMENTS
       THEN << FALSE, "path too shallow" >>
     ELSE IF path = RStripPath(base_url) \/ path = <<>>
       THEN << FALSE, "is base URL" >>
     ELSE << TRUE, "ok" >>

InitClassify ==
  /\ ServiceIdle
  /\ call \in { [fn |-> "is_likely_article_url", url |-> u,
                 anchor_text |-> a, base_url |-> b, done |-> FALSE,
                 ret |-> << FALSE, "" >>] :
                  u \in Paths, a \in AnchorTexts, b \in BasePaths }

is_likely_article_url_returns ==
  /\ call.fn = "is_likely_article_url"
  /\ ~call.done
  /\ call' = [call EXCEPT !.done = TRUE,
                          !.ret = is_likely_article_url(call.url,
                                                        call.anchor_text,
                                                        call.base_url)]
  /\ ServiceUnchanged

NextClassify == is_likely_article_url_returns

SpecClassify == InitClassify /\ [][NextClassify]_vars

\* ---------------------- base-url-to-article/main.py: extract_article_links
ARTICLE_LINK_SELECTOR_GROUPS ==
  LET all == << << "article h1 a[href]", "article h2 a[href]",
                   "article h3 a[href]", "article .entry-title a[href]" >>,
                << "h2 a[href]", "h3 a[href]", ".entry-title a[href]",
                   ".post-title a[href]" >>,
                << ".result a[href]", ".search-result a[href]",
                   "li.result a[href]", "a.result-title[href]" >>,
                << ".post a[href]", ".article a[href]",
                   "[class*='article'] a[href]",
                   "[class*='post-item'] a[href]" >>,
                << "main a[href]", "#content a[href]", ".content a[href]",
                   "[role='main'] a[href]" >> >>
  IN [g \in 1..NumSelectorGroups |-> SubSeq(all[g], 1, MaxGroupSelectors)]

GroupSelectors(g) ==
  { ARTICLE_LINK_SELECTOR_GROUPS[g][s] :
      s \in 1..Len(ARTICLE_LINK_SELECTOR_GROUPS[g]) }
AllSelectors == UNION { GroupSelectors(g) : g \in 1..NumSelectorGroups }

\* What page.locator(sel).all() gives for a selector: nothing (no element,
\* or the locator raises), a link into a section page of the site, a link
\* to a story of the site, a link to a story on a host whose name holds the
\* site's ("lookalike"), or a link to a story on an unrelated host
\* ("foreign"); the href of a link names the selector that found it.
OffsiteKinds == { "lookalike", "foreign" }
LinkKinds == { "none", "section", "story" } \cup OffsiteKinds

LinkPath(sel, kind) ==
  IF kind = "section" THEN << << "Tag" >>, << sel >> >>
  ELSE << << "news" >>, << sel >> >>

\* A host name is the sequence of its labels.  urlparse(base_url).netloc,
\* and urlparse(abs_url).netloc by the kind of the link.
BaseNetloc == << "news", "example" >>
LinkNetloc(kind) ==
  CASE kind = "lookalike" -> << "news", "example", "evil" >>
    [] kind = "foreign" -> << "other" >>
    [] OTHER -> BaseNetloc

\* a in b, of two host names
InNetloc(a, b) ==
  \E i \in 0..(Len(b) - Len(a)) : SubSeq(b, i + 1, i + Len(a)) = a

\* if base_domain not in link_domain and link_domain not in base_domain:
\* continue
OffDomain(base_domain, link_domain) ==
  ~InNetloc(base_domain, link_domain) /\ ~InNetloc(link_domain, base_domain)

\* abs_url = urljoin(base_url, href)
LinkUrl(sel, kind) ==
  [netloc |-> LinkNetloc(kind), path |-> LinkPath(sel, kind)]

LinkText == Some([body |-> MIN_ANCHOR_TEXT_LEN, pad |-> 0])

\* The links of the page: for each selector, the kind of link it finds; at
\* most one link of the page leaves the site.
LinkPages ==
  { p \in [AllSelectors -> LinkKinds] :
      Cardinality({ sel \in AllSelectors : p[sel] \in OffsiteKinds }) <= 1 }

\* if group_accepted: ... break (and, before it, the loop without its break)
StopAtGroup_Never(group_accepted) == FALSE
StopAtGroup(group_accepted) == group_accepted # {}

InitExtract ==
  /\ ServiceIdle
  /\ call \in { [fn |-> "extract_article_links", page |-> p,
                 base_url |-> <<>>, group_idx |-> 1, sel_idx |-> 1,
                 accepted |-> {}, group_accepted |-> {}, queried |-> <<>>,
                 done |-> FALSE, ret |-> {}] : p \in LinkPages }

\* One selector of the current group: its elements are classified and the
\* accepted ones join group_accepted.  After the last selector of a group
\* the function stops with that group's links if it has any, else goes on to
\* the next group; after the last group it returns what it has accepted.
extract_article_links_step ==
  /\ call.fn = "extract_article_links"
  /\ ~call.done
  /\ LET g == call.group_idx
         sel == ARTICLE_LINK_SELECTOR_GROUPS[g][call.sel_idx]
         kind == call.page[sel]
         url == LinkUrl(sel, kind)
         keep == /\ kind # "none"
                 /\ ~OffDomain(BaseNetloc, url.netloc)
                 /\ url \notin call.accepted
                 /\ url \notin call.group_accepted
                 /\ is_likely_article_url(url.path, LinkText,
                                          call.base_url)[1]
         ga == IF keep THEN call.group_accepted \cup { url }
               ELSE call.group_accepted
         q == Append(call.queried, sel)
     IN IF call.sel_idx < Len(ARTICLE_LINK_SELECTOR_GROUPS[g])
          THEN call' = [call EXCEPT !.sel_idx = @ + 1, !.group_accepted = ga,
                                    !.queried = q]
        ELSE IF StopAtGroup(ga)
          THEN call' = [call EXCEPT !.accepted = @ \cup ga, !.queried = q,
                                    !.group_accepted = ga,
                                    !.done = TRUE, !.ret = call.accepted \cup ga]
        ELSE IF g < NumSelectorGroups
          THEN call' = [call EXCEPT !.group_idx = @ + 1, !.sel_idx = 1,
                                    !.group_accepted = {}, !.queried = q]
        ELSE call' = [call EXCEPT !.queried = q, !.group_accepted = ga,
                                  !.done = TRUE, !.ret = call.accepted]
  /\ ServiceUnchanged

NextExtract == extract_article_links_step

SpecExtract == InitExtract /\ [][NextExtract]_vars

\* ---------------------------- base-url-to-article/main.py: the date filter
\* Time is counted in ticks, TicksPerDay of them to a day; an instant is a
\* number of ticks in UTC.  TWO_YEAR_CUTOFF is fixed when the module is
\* loaded, at any instant of the days followed.
Instants == 0..(MaxDay * TicksPerDay + TicksPerDay - 1)

\* A date string, by what the formats of is_within_2_years make of it:
\*   "empty"     the empty string
\*   "text"      text that no format matches
\*   "fraction"  an ISO date and time with fractional seconds, which no
\*               format matches (raw[:25] cuts it inside the fraction)
\*   "date"      a day alone, in one of the date formats
\*   "datetime"  a day and a time of day, with a UTC offset (%z) when tz
DateStrings ==
  { None, Some([kind |-> "empty"]), Some([kind |-> "text"]) }
  \cup { Some([kind |-> "fraction", day |-> d, tick |-> t]) :
           d \in 0..MaxDay, t \in 0..(TicksPerDay - 1) }
  \cup { Some([kind |-> "date", day |-> d]) : d \in 0..MaxDay }
  \cup { Some([kind |-> "datetime", day |-> d, tick |-> t, tz |-> z,
               offset |-> o]) :
           d \in 0..MaxDay, t \in 0..(TicksPerDay - 1), z \in BOOLEAN,
           o \in { -1, 0, 1 } }

\* if not date_str
Falsy(date_str) == date_str = None \/ date_str.val.kind = "empty"

\* The loop over parse_fmts: the first format that matches gives article_dt,
\* a naive result being taken as UTC; None when none matches.
ParseDate(date_str) ==
  LET s == date_str.val
  IN IF s.kind = "date" THEN Some(s.day * TicksPerDay)
     ELSE IF s.kind = "datetime"
       THEN Some(s.day * TicksPerDay + s.tick - (IF s.tz THEN s.offset ELSE 0))
     ELSE None

\* if article_dt >= TWO_YEAR_CUTOFF (and, before it, the strict comparison)
NotOlder_Strict(article_dt, cutoff) == article_dt > cutoff
NotOlder(article_dt, cutoff) == article_dt >= cutoff

\* is_within_2_years(date_str): << keep, reason >>, the reason "" for None
is_within_2_years(date_str, TWO_YEAR_CUTOFF) ==
  IF Falsy(date_str) THEN << TRUE, "" >>
  ELSE LET article_dt == ParseDate(date_str)
       IN IF article_dt = None THEN << TRUE, "" >>
          ELSE IF NotOlder(article_dt.val, TWO_YEAR_CUTOFF) THEN << TRUE, "" >>
          ELSE << FALSE, "older than cutoff" >>

InitRecency ==
  /\ ServiceIdle
  /\ call \in { [fn |-> "is_within_2_years", date_str |-> s, cutoff |-> c,
                 done |-> FALSE, ret |-> << TRUE, "" >>] :
                  s \in DateStrings, c \in Instants }

is_within_2_years_returns ==
  /\ call.fn = "is_within_2_years"
  /\ ~call.done
  /\ call' = [call EXCEPT !.done = TRUE,
                          !.ret = is_within_2_years(call.date_str, call.cutoff)]
  /\ ServiceUnchanged

NextRecency == is_within_2_years_returns

SpecRecency == InitRecency /\ [][NextRecency]_vars

\* ------------------------------------- base-url-to-article/main.py: _parse_date
\* A raw date string is a sequence of tokens: " " is white space, "word"
\* text that belongs to no format, "2024-01-05" a day in the format
\* %Y-%m-%d, "2024-01-05T10:00:00+05:30" a day and time in the format
\* %Y-%m-%dT%H:%M:%S%z.
RawTokens == { " ", "word", "2024-01-05", "2024-01-05T10:00:00+05:30" }
RawDates == { None } \cup { Some(r) : r \in SeqsUpTo(RawTokens, MaxRawTokens) }

\* len(), token by token ("cut" is what raw[:25] leaves of a token)
TokenLen(tok) ==
  CASE tok = " " -> 1
    [] tok = "word" -> 4
    [] tok = "2024-01-05" -> 10
    [] OTHER -> DATE_PREFIX_LEN

\* str.strip()
RECURSIVE LStrip(_)
LStrip(r) == IF r # <<>> /\ Head(r) = " " THEN LStrip(Tail(r)) ELSE r
RECURSIVE RStrip(_)
RStrip(r) ==
  IF r # <<>> /\ r[Len(r)] = " " THEN RStrip(SubSeq(r, 1, Len(r) - 1)) ELSE r
Strip(r) == RStrip(LStrip(r))

\* raw[:n]
RECURSIVE Truncate(_, _)
Truncate(r, n) ==
  IF r = <<>> \/ n = 0 THEN <<>>
  ELSE IF TokenLen(Head(r)) <= n
    THEN << Head(r) >> \o Truncate(Tail(r), n - TokenLen(Head(r)))
  ELSE << "cut" >>

\* datetime.strptime(s, fmt) for the formats of the list in turn, then
\* strftime("%Y-%m-%d %H:%M:%S+05:30"): a format matches the whole string or
\* raises ValueError.  None when every format raises.
Strptime(s) ==
  IF s = << "2024-01-05" >> THEN Some(<< "2024-01-05 00:00:00+05:30" >>)
  ELSE IF s = << "2024-01-05T10:00:00+05:30" >>
    THEN Some(<< "2024-01-05 10:00:00+05:30" >>)
  ELSE None

\* raw = raw.strip() (and, before it, the string kept as it came)
StripRaw_Keep(raw) == raw
StripRaw(raw) == Strip(raw)

\* _parse_date(raw)
_parse_date(raw) ==
  IF raw = None \/ raw.val = <<>> THEN None
  ELSE LET stripped == StripRaw(raw.val)
           dt == Strptime(Truncate(stripped, DATE_PREFIX_LEN))
       IN IF dt # None THEN dt ELSE Some(stripped)

InitParseDate ==
  /\ ServiceIdle
  /\ call \in { [fn |-> "_parse_date", raw |-> r, done |-> FALSE,
                 ret |-> None] : r \in RawDates }

_parse_date_returns ==
  /\ call.fn = "_parse_date"
  /\ ~call.done
  /\ call' = [call EXCEPT !.done = TRUE, !.ret = _parse_date(call.raw)]
  /\ ServiceUnchanged

NextParseDate == _parse_date_returns

SpecParseDate == InitParseDate /\ [][NextParseDate]_vars

\* ------------------------- base-url-to-article/main.py: extract_article_details
TITLE_SELECTORS ==
  SubSeq(<< "h1.entry-title", "h1.post-title", "h1.article-title" >>,
         1, NumDetailSelectors)
DATE_SELECTORS ==
  SubSeq(<< "time[datetime]", "[itemprop='datePublished']", ".published" >>,
         1, NumDetailSelectors)
TEXT_SELECTORS ==
  SubSeq(<< "article .entry-content", "article .post-content",
            "article .article-body" >>, 1, NumDetailSelectors)

\* What a selector of a list gives on the article page: an operation on its
\* locator raises, it has no element, or its first element gives
\*   for the title  a text that is empty once stripped, or not
\*   for the date   a raw string (content, else datetime, else the stripped
\*                  inner text): empty, white space, or a day
\*   for the body   a text of 100 or of 101 characters once stripped
Raises == [kind |-> "raises"]
Absent == [kind |-> "absent"]
TitleAnswers ==
  { Raises, Absent, [kind |-> "text", blank |-> TRUE],
    [kind |-> "text", blank |-> FALSE] }
DateAnswers ==
  { Raises, Absent, [kind |-> "raw", raw |-> <<>>],
    [kind |-> "raw", raw |-> << " " >>],
    [kind |-> "raw", raw |-> << "2024-01-05" >>] }
BodyAnswers ==
  { Raises, Absent, [kind |-> "text", len |-> BODY_MIN_LEN],
    [kind |-> "text", len |-> BODY_MIN_LEN + 1] }

\* page.title(): it raises, or gives a title that is empty once stripped, or
\* not.
PageTitles == { Raises, [kind |-> "text", blank |-> TRUE],
                [kind |-> "text", blank |-> FALSE] }

\* The article page: how the navigation ends ("ok", "status400" for a status
\* of 400 or more, "raises") and, when it ends well, what its selectors give.
BlankArticle ==
  [response |-> "ok",
   title |-> [i \in 1..NumDetailSelectors |-> Absent],
   date |-> [i \in 1..NumDetailSelectors |-> Absent],
   body |-> [i \in 1..NumDetailSelectors |-> Absent],
   page_title |-> Raises]
ArticlePages ==
  [ response : { "ok" },
    title : [1..NumDetailSelectors -> TitleAnswers],
    date : [1..NumDetailSelectors -> DateAnswers],
    body : [1..NumDetailSelectors -> BodyAnswers],
    page_title : PageTitles ]
  \cup { [BlankArticle EXCEPT !.response = r] : r \in { "status400", "raises" } }

\* A text, by where it was read ("" is the empty string).
Text(from) == [text |-> from]

\* if t: / if raw: / if len(text) > 100: (and, before the last, a body of
\* 100 characters taken too)
TitleMatches(a) == a.kind = "text" /\ ~a.blank
DateMatches(a) == a.kind = "raw" /\ a.raw # <<>>
BodyMatches_AtLeast(a) == a.kind = "text" /\ a.len >= BODY_MIN_LEN
BodyMatches(a) == a.kind = "text" /\ a.len > BODY_MIN_LEN

\* for sel in ...: try: ... break / except Exception: continue -- the
\* position of the selector whose element is taken (0: none), and the
\* selectors consulted.
Taken(hits) == IF hits = {} THEN 0 ELSE Min(hits)
Consulted(hits, n) == IF hits = {} THEN 1..n ELSE 1..Min(hits)

\* extract_article_details(page, article_url): the title, date and text of
\* d, and the selectors consulted for each (companies_mentioned and location
\* are computed from the text and are not followed).
extract_article_details(page) ==
  IF page.response # "ok"
    THEN [article_title |-> None, article_date |-> None,
          extracted_text |-> None,
          consulted |-> [title |-> {}, date |-> {}, body |-> {}]]
  ELSE LET th == { i \in DOMAIN page.title : TitleMatches(page.title[i]) }
           dh == { i \in DOMAIN page.date : DateMatches(page.date[i]) }
           bh == { i \in DOMAIN page.body : BodyMatches(page.body[i]) }
       IN [article_title |->
             IF th # {} THEN Some(Text(TITLE_SELECTORS[Taken(th)]))
             ELSE IF page.page_title = Raises THEN None
             ELSE IF page.page_title.blank THEN Some(Text(""))
             ELSE Some(Text("title")),
           article_date |->
             IF dh # {} THEN _parse_date(Some(page.date[Taken(dh)].raw))
             ELSE None,
           extracted_text |->
             IF bh # {} THEN Some(Text(TEXT_SELECTORS[Taken(bh)])) ELSE None,
           consulted |->
             [title |-> Consulted(th, Len(TITLE_SELECTORS)),
              date |-> Consulted(dh, Len(DATE_SELECTORS)),
              body |-> Consulted(bh, Len(TEXT_SELECTORS))]]

InitDetails ==
  /\ ServiceIdle
  /\ call \in { [fn |-> "extract_article_details", page |-> p,
                 done |-> FALSE, ret |-> extract_article_details(BlankArticle)] :
                  p \in ArticlePages }

extract_article_details_returns ==
  /\ call.fn = "extract_article_details"
  /\ ~call.done
  /\ call' = [call EXCEPT !.done = TRUE,
                          !.ret = extract_article_details(call.page)]
  /\ ServiceUnchanged

NextDetails == extract_article_details_returns

SpecDetails == InitDetails /\ [][NextDetails]_vars

\* ------------------------------------------- main.py: main, batch by batch
\* main's loop with run_batch as one step.  What a batch leaves in the store
\* is what its process_domain tasks leave: for each domain of the batch
\* nothing (no pattern found, or an error), the pattern row alone (the
\* update raised) or the row and the processed flag.
\*   pc               "start" | "fetch" | "run_batch" | "returned" | "raised"
\*   domains          the batch
\*   total_processed  main's counter, told apart up to MaxTotal
MainCall(pc, domains, total_processed) ==
  [fn |-> "background_runner", pc |-> pc, domains |-> domains,
   total_processed |-> total_processed]

InitMain ==
  /\ is_running = FALSE
  /\ runner = [r \in Runners |-> "none"]
  /\ search_processed = [d \in Domains |-> FALSE]
  /\ patterns = [d \in Domains |-> NoRow]
  /\ batch = {}
  /\ budget = 0
  /\ semaphore = DOMAIN_CONCURRENCY
  /\ task = [d \in Domains |-> IdleTask]
  /\ call = MainCall("start", {}, 0)

\* background_runner up to main's first fetch: is_running = True
main_starts ==
  /\ call.fn = "background_runner" /\ call.pc = "start"
  /\ ~AlreadyRunning(is_running)
  /\ is_running' = TRUE
  /\ call' = [call EXCEPT !.pc = "fetch"]
  /\ UNCHANGED << runner, search_processed, patterns, batch, budget,
                  semaphore, task >>

\* domains = await fetch_unprocessed_base_urls(limit=BATCH_SIZE); if not
\* domains: break -- main returns and the finally resets the flag.
main_fetches ==
  /\ call.fn = "background_runner" /\ call.pc = "fetch"
  /\ \E domains \in fetch_unprocessed_base_urls(search_processed, BATCH_SIZE) :
       IF domains = {}
         THEN /\ is_running' = FALSE
              /\ call' = [call EXCEPT !.pc = "returned", !.domains = {}]
         ELSE /\ is_running' = is_running
              /\ call' = [call EXCEPT !.pc = "run_batch", !.domains = domains]
  /\ UNCHANGED << runner, search_processed, patterns, batch, budget,
                  semaphore, task >>

\* await run_batch(domains) returns; total_processed += len(domains)
run_batch_returns ==
  /\ call.fn = "background_runner" /\ call.pc = "run_batch"
  /\ \E rows \in SUBSET call.domains : \E marked \in SUBSET rows :
       /\ patterns' = [d \in Domains |->
                         IF d \in rows THEN SeedRow(d) ELSE patterns[d]]
       /\ search_processed' = [d \in Domains |->
                                 search_processed[d] \/ d \in marked]
  /\ call' = [call EXCEPT
                !.pc = "fetch",
                !.total_processed =
                   IF @ + Cardinality(call.domains) > MaxTotal THEN MaxTotal
                   ELSE @ + Cardinality(call.domains)]
  /\ UNCHANGED << is_running, runner, batch, budget, semaphore, task >>

\* run_batch raises (the browser launch): the exception leaves main and the
\* finally resets the flag.
run_batch_raises ==
  /\ call.fn = "background_runner" /\ call.pc = "run_batch"
  /\ is_running' = FALSE
  /\ call' = [call EXCEPT !.pc = "raised"]
  /\ UNCHANGED << runner, search_processed, patterns, batch, budget,
                  semaphore, task >>

NextMain ==
  \/ main_starts
  \/ main_fetches
  \/ run_batch_returns
  \/ run_batch_raises

\* Every await of main returns or raises: the fetch, and run_batch once its
\* tasks have ended.
SpecMain == InitMain /\ [][NextMain]_vars /\ WF_vars(NextMain)

\* ------------------------------- base-url-to-article/main.py: try_url_pattern
\* A URL template, by its tokens: the placeholders are tokens of their own.
TemplateTokens ==
  [ t \in { "/search?q={}", "/search?query={}", "/search?keyword={}",
            "{base}?s={keyword}", "{base}?q={keyword}",
            "{base}/search?q={keyword}", "{base}/search?s={keyword}",
            "{base}/search/{keyword}/", "{base}/?tag={keyword}" } |->
      CASE t = "/search?q={}" -> << "/search?q=", "{}" >>
        [] t = "/search?query={}" -> << "/search?query=", "{}" >>
        [] t = "/search?keyword={}" -> << "/search?keyword=", "{}" >>
        [] t = "{base}?s={keyword}" -> << "{base}", "?s=", "{keyword}" >>
        [] t = "{base}?q={keyword}" -> << "{base}", "?q=", "{keyword}" >>
        [] t = "{base}/search?q={keyword}" ->
             << "{base}", "/search?q=", "{keyword}" >>
        [] t = "{base}/search?s={keyword}" ->
             << "{base}", "/search?s=", "{keyword}" >>
        [] t = "{base}/search/{keyword}/" ->
             << "{base}", "/search/", "{keyword}", "/" >>
        [] t = "{base}/?tag={keyword}" ->
             << "{base}", "/?tag=", "{keyword}" >> ]

\* The url entries of FALLBACK_PATTERNS, by their templates.
FALLBACK_URL_TEMPLATES ==
  << "{base}?s={keyword}", "{base}?q={keyword}", "{base}/search?q={keyword}",
     "{base}/search?s={keyword}", "{base}/search/{keyword}/",
     "{base}/?tag={keyword}" >>

\* Keywords: words, spaces and ampersands.
KeywordTokens == { "solar", " ", "&" }
Keywords ==
  UNION { [1..n -> KeywordTokens] : n \in 1..MaxKeywordTokens }

\* urllib.parse.quote_plus
quote_plus(keyword) ==
  [ i \in DOMAIN keyword |->
      CASE keyword[i] = " " -> "+"
        [] keyword[i] = "&" -> "%26"
        [] OTHER -> keyword[i] ]

\* str.replace(old, new), old being one token
RECURSIVE Replace(_, _, _)
Replace(s, old, new) ==
  IF s = <<>> THEN <<>>
  ELSE (IF Head(s) = old THEN new ELSE << Head(s) >>)
         \o Replace(Tail(s), old, new)

\* url_template.replace("{base}", base).replace("{keyword}", kw_enc)
ScraperUrl(base, kw_enc, url_template) ==
  Replace(Replace(TemplateTokens[url_template], "{base}", base),
          "{keyword}", kw_enc)

\* What page.goto answers: it raises, or returns no response, or one with
\* a status.
GotoAnswers == { "raises", "none", "200", "404" }

\* try_url_pattern(page, base_url, keyword, url_template): the URL handed to
\* page.goto and the value returned.
try_url_pattern(base_url, keyword, url_template, answer) ==
  LET base == RStripSlash(base_url)
      kw_enc == quote_plus(keyword)
      url == ScraperUrl(base, kw_enc, url_template)
  IN [url |-> url, ok |-> answer = "200"]

\* The templates search_and_extract hands to try_url_pattern: the pattern
\* of a stored url row, which the discovery saved from SEARCH_URL_PATTERNS,
\* and the url entries of FALLBACK_PATTERNS.
InitTryUrl ==
  /\ ServiceIdle
  /\ call \in { [fn |-> "try_url_pattern", base_url |-> b, keyword |-> k,
                 url_template |-> t, answer |-> a, done |-> FALSE,
                 ret |-> [url |-> <<>>, ok |-> FALSE]] :
                  b \in BaseUrls, k \in Keywords,
                  t \in { SEARCH_URL_PATTERNS[i] :
                            i \in 1..Len(SEARCH_URL_PATTERNS) }
                        \cup { FALLBACK_URL_TEMPLATES[i] :
                                 i \in 1..Len(FALLBACK_URL_TEMPLATES) },
                  a \in GotoAnswers }

try_url_pattern_returns ==
  /\ call.fn = "try_url_pattern"
  /\ ~call.done
  /\ call' = [call EXCEPT !.done = TRUE,
                          !.ret = try_url_pattern(call.base_url, call.keyword,
                                                  call.url_template,
                                                  call.answer)]
  /\ ServiceUnchanged

NextTryUrl == try_url_pattern_returns

SpecTryUrl == InitTryUrl /\ [][NextTryUrl]_vars

\* ---------------------------- base-url-to-article/main.py: search_and_extract
\* FALLBACK_PATTERNS: (label, ftype, fpat)
FALLBACK_PATTERNS ==
  << << "url_search_param", "url", "{base}?s={keyword}" >>,
     << "url_query_param", "url", "{base}?q={keyword}" >>,
     << "url_search_path", "url", "{base}/search?q={keyword}" >>,
     << "url_search_path_s", "url", "{base}/search?s={keyword}" >>,
     << "url_search_slash", "url", "{base}/search/{keyword}/" >>,
     << "url_tag_path", "url", "{base}/?tag={keyword}" >>,
     << "input_name_search", "input", "input[name='search']" >>,
     << "input_name_q", "input", "input[name='q']" >>,
     << "input_name_s", "input", "input[name='s']" >>,
     << "input_type_search", "input", "input[type='search']" >>,
     << "input_placeholder", "input", "input[placeholder*='earch' i]" >>,
     << "input_class_search", "input", "input[class*='search' i]" >>,
     << "input_id_search", "input", "input[id*='search' i]" >>,
     << "icon_aria_search", "icon", "button[aria-label*='Search' i]" >>,
     << "icon_class_search", "icon", "button[class*='search' i]" >>,
     << "icon_i_search", "icon", "i[class*='search' i]" >>,
     << "icon_svg_search", "icon", "svg[class*='search' i]" >>,
     << "icon_class_srch_btn", "icon", ".search-button" >>,
     << "icon_class_srch_icn", "icon", ".search-icon" >>,
     << "icon_class_srch_tog", "icon", ".search-toggle" >> >>

\* known_pattern, as load_search_pattern_from_supabase returns it: the
\* method of the stored row and its pattern.
KnownPatterns ==
  { [method |-> "url", pattern |-> "/search?q={}"],
    [method |-> "input", pattern |-> "input[name='q']"],
    [method |-> "icon", pattern |-> ".search-icon"],
    [method |-> "network", pattern |-> "/api/search"],
    [method |-> "fallback", pattern |-> "x?s="] }

\* What the site does at one entry of FALLBACK_PATTERNS, when it does not
\* just fail: the try succeeds, or the reload of the base URL that precedes
\* an input or icon try raises.
FallbackEvents ==
  { << i, "ok" >> : i \in 1..Len(FALLBACK_PATTERNS) }
    \cup { << i, "reload_raises" >> :
             i \in { j \in 1..Len(FALLBACK_PATTERNS) :
                       FALLBACK_PATTERNS[j][2] \in { "input", "icon" } } }

RECURSIVE EventSets(_)
EventSets(k) ==
  IF k = 0 THEN { {} }
  ELSE LET smaller == EventSets(k - 1)
       IN smaller \cup
            { s \cup { e } : s \in smaller,
                             e \in FallbackEvents }

\* A site, by what search_and_extract meets: the answer of the first
\* navigation to base_url, whether the try of the stored pattern succeeds,
\* the events of the fallbacks, and the links extract_article_links
\* returns from the results page.
SearchSites ==
  [ base : { "raises", "200", "404" },
    stored_ok : BOOLEAN,
    events : { s \in EventSets(MaxFallbackEvents) :
                 \A e, f \in s : e[1] = f[1] => e = f },
    links : { [i \in 1..n |-> i] : n \in 0..MaxLinks } ]

\* step 3: the entries tried from the i-th on (calls) and the first that
\* succeeds (hit, 0 when none does).
RECURSIVE FallbacksFrom_NoBreak(_, _)
FallbacksFrom_NoBreak(site, i) ==
  IF i > Len(FALLBACK_PATTERNS) THEN [hit |-> 0, calls |-> <<>>]
  ELSE LET rest == FallbacksFrom_NoBreak(site, i + 1)
       IN IF << i, "reload_raises" >> \in site.events THEN rest
          ELSE IF << i, "ok" >> \in site.events /\ rest.hit = 0
            THEN [hit |-> i, calls |-> << i >> \o rest.calls]
          ELSE [hit |-> rest.hit, calls |-> << i >> \o rest.calls]

RECURSIVE FallbacksFrom(_, _)
FallbacksFrom(site, i) ==
  IF i > Len(FALLBACK_PATTERNS) THEN [hit |-> 0, calls |-> <<>>]
  ELSE IF << i, "reload_raises" >> \in site.events
    THEN FallbacksFrom(site, i + 1)                   \* continue
  ELSE IF << i, "ok" >> \in site.events
    THEN [hit |-> i, calls |-> << i >>]               \* break
  ELSE LET rest == FallbacksFrom(site, i + 1)
       IN [hit |-> rest.hit, calls |-> << i >> \o rest.calls]

\* search_and_extract(page, base_url, keyword, known_pattern): the result,
\* and the patterns tried, in order (0: the stored one).
search_and_extract(site, known_pattern) ==
  LET result == [method_used |-> None, pattern_used |-> None,
                 search_url |-> None, articles_found |-> 0,
                 article_links |-> <<>>, status |-> "failed", calls |-> <<>>]
      tries_stored == known_pattern.method \in { "url", "input", "icon",
                                                 "fallback" }
      stored == tries_stored /\ site.stored_ok
      fallbacks == FallbacksFrom(site, 1)
      calls == (IF tries_stored THEN << 0 >> ELSE <<>>)
                 \o (IF stored THEN <<>> ELSE fallbacks.calls)
      found ==
        IF stored
          THEN [result EXCEPT
                  !.method_used =
                     Some(IF known_pattern.method = "fallback"
                            THEN "fallback_url" ELSE known_pattern.method),
                  !.pattern_used = Some(known_pattern.pattern)]
        ELSE IF fallbacks.hit # 0
          THEN [result EXCEPT
                  !.method_used = Some(FALLBACK_PATTERNS[fallbacks.hit][2]),
                  !.pattern_used = Some(FALLBACK_PATTERNS[fallbacks.hit][3])]
        ELSE result
  IN IF site.base = "raises"
       THEN [result EXCEPT !.status = "unreachable"]
     ELSE IF ~stored /\ fallbacks.hit = 0
       THEN [result EXCEPT !.status = "no_pattern_worked", !.calls = calls]
     ELSE IF site.links = <<>>
       THEN [found EXCEPT !.search_url = Some("page.url"),
                          !.status = "no_links_found", !.calls = calls]
     ELSE [found EXCEPT !.search_url = Some("page.url"),
                        !.status = "success",
                        !.articles_found = Len(site.links),
                        !.article_links = site.links, !.calls = calls]

InitSearch ==
  /\ ServiceIdle
  /\ call \in { [fn |-> "search_and_extract", site |-> s,
                 known_pattern |-> k, done |-> FALSE,
                 ret |-> [method_used |-> None, pattern_used |-> None,
                          search_url |-> None, articles_found |-> 0,
                          article_links |-> <<>>, status |-> "failed",
                          calls |-> <<>>]] :
                  s \in SearchSites, k \in KnownPatterns }

search_and_extract_returns ==
  /\ call.fn = "search_and_extract"
  /\ ~call.done
  /\ call' = [call EXCEPT !.done = TRUE,
                          !.ret = search_and_extract(call.site,
                                                     call.known_pattern)]
  /\ ServiceUnchanged

NextSearch == search_and_extract_returns

SpecSearch == InitSearch /\ [][NextSearch]_vars

\* ------------------------- base-url-to-article/main.py: main, phase 2 inserts
\* What the insert of one row can raise: a duplicate key, a row-level
\* security refusal, or anything else.
InsertFaultKinds == { "duplicate", "rls", "other" }

\* The inserts of one call that raise, by position in rows and kind.
RECURSIVE InsertFaults(_, _)
InsertFaults(n, k) ==
  IF k = 0 THEN { {} }
  ELSE LET fewer == InsertFaults(n, k - 1)
       IN fewer \cup
            { f \cup { << i, kind >> } :
                f \in fewer,
                i \in 1..n, kind \in InsertFaultKinds }

FaultAt(faults, i) == \E kind \in InsertFaultKinds : << i, kind >> \in faults

\* insert_articles_to_supabase(sb, rows), from the i-th row on: the rows
\* whose insert was attempted, and the two counts. Every branch of the
\* except clause counts the row as skipped and goes on (the variant stops
\* at the first insert that raises).
RECURSIVE InsertFrom_StopsOnError(_, _, _)
InsertFrom_StopsOnError(rows, faults, i) ==
  IF i > Len(rows) THEN [attempted |-> <<>>, inserted |-> 0, skipped |-> 0]
  ELSE IF FaultAt(faults, i)
    THEN [attempted |-> << rows[i] >>, inserted |-> 0, skipped |-> 1]
  ELSE LET rest == InsertFrom_StopsOnError(rows, faults, i + 1)
       IN [attempted |-> << rows[i] >> \o rest.attempted,
           inserted |-> rest.inserted + 1, skipped |-> rest.skipped]

RECURSIVE InsertFrom(_, _, _)
InsertFrom(rows, faults, i) ==
  IF i > Len(rows) THEN [attempted |-> <<>>, inserted |-> 0, skipped |-> 0]
  ELSE LET rest == InsertFrom(rows, faults, i + 1)
       IN IF FaultAt(faults, i)
            THEN [attempted |-> << rows[i] >> \o rest.attempted,
                  inserted |-> rest.inserted, skipped |-> rest.skipped + 1]
          ELSE [attempted |-> << rows[i] >> \o rest.attempted,
                inserted |-> rest.inserted + 1, skipped |-> rest.skipped]

insert_articles_to_supabase(rows, faults) == InsertFrom(rows, faults, 1)

\* ins, skip = insert_articles_to_supabase(sb, batch); total_inserted += ins;
\* total_skipped += skip; batch.clear()
Flush(c, faults) ==
  LET r == insert_articles_to_supabase(c.batch, faults)
  IN [c EXCEPT
        !.total_inserted = @ + r.inserted,
        !.total_skipped = @ + r.skipped,
        !.attempted = @ \o r.attempted,
        !.faulty = @ \cup { c.batch[i] : i \in { j \in DOMAIN c.batch :
                                                   FaultAt(faults, j) } },
        !.calls = Append(@, [rows |-> c.batch, inserted |-> r.inserted,
                             skipped |-> r.skipped]),
        !.batch = <<>>]

\* Phase 2 starts with the article URLs of phase 1 (article_urls non-empty),
\* nothing visited, an empty batch and the counters at 0.
InitPhase2 ==
  /\ ServiceIdle
  /\ call \in { [fn |-> "main.phase2", pc |-> "loop", article_urls |-> n,
                 art_idx |-> 0, batch |-> <<>>, output_rows |-> <<>>,
                 total_inserted |-> 0, total_skipped |-> 0,
                 attempted |-> <<>>, faulty |-> {}, calls |-> <<>>] :
                  n \in 1..NumArticles }

\* One turn of the loop over article_urls: the article is visited, dropped
\* by the date filter or kept as a row of batch and output_rows, and the
\* batch is inserted once it holds INSERT_BATCH_SIZE rows.
phase2_article ==
  /\ call.fn = "main.phase2"
  /\ call.pc = "loop"
  /\ call.art_idx < call.article_urls
  /\ \E keep \in BOOLEAN :
       LET idx == call.art_idx + 1
           visited == [call EXCEPT !.art_idx = idx]
           kept == [visited EXCEPT !.batch = Append(@, idx),
                                   !.output_rows = Append(@, idx)]
       IN IF ~keep
            THEN /\ call.art_idx - Len(call.output_rows) < MaxDropped
                 /\ call' = visited
          ELSE IF Len(kept.batch) >= INSERT_BATCH_SIZE
            THEN \E faults \in InsertFaults(Len(kept.batch), MaxInsertFaults) :
                   /\ \A e, f \in faults : e[1] = f[1] => e = f
                   /\ call' = Flush(kept, faults)
          ELSE call' = kept
  /\ ServiceUnchanged

\* if batch: the remainder is inserted, after the loop.
phase2_remainder ==
  /\ call.fn = "main.phase2"
  /\ call.pc = "loop"
  /\ call.art_idx = call.article_urls
  /\ IF call.batch # <<>>
       THEN \E faults \in InsertFaults(Len(call.batch), MaxInsertFaults) :
              /\ \A e, f \in faults : e[1] = f[1] => e = f
              /\ call' = [Flush(call, faults) EXCEPT !.pc = "done"]
     ELSE call' = [call EXCEPT !.pc = "done"]
  /\ ServiceUnchanged

NextPhase2 == phase2_article \/ phase2_remainder

SpecPhase2 == InitPhase2 /\ [][NextPhase2]_vars

\* ------------------------------------------------------------------- claims
DetectPcs == { "input", "icon", "url_new_page", "url", "url_close", "fallback" }
ProbePcs == { "input", "icon", "url", "fallback" }
InMain == { "launch", "gather", "close_browser" }
OpenContexts == { d \in Domains : task[d].context = "open" }

\* C1: detect_search calls the strategies in the order input, icon, url,
\* fallback; once it has returned, the strategies called are a prefix of that
\* order, a non-null result is the result of the last strategy called (so no
\* strategy ran after the one that produced it), and a null result means
\* all four were called.
C1_PriorityChain ==
  \A d \in Domains :
    LET t == task[d]
        order == << "input", "icon", "url", "fallback" >>
        n == Len(t.executed)
    IN /\ n <= 4
       /\ \A i \in 1..n : t.executed[i] = order[i]
       /\ (t.pc = "wait_for" /\ Truthy(t.result)) => t.result.method = t.executed[n]
       /\ (t.pc = "wait_for" /\ ~Truthy(t.result)) => t.executed = order

C1_Witness ==
  \E d \in Domains :
    /\ task[d].pc = "wait_for"
    /\ task[d].executed = << "input", "icon" >>
    /\ Truthy(task[d].result)
    /\ task[d].result.method = "icon"

\* C2: the number of browsing contexts that are open never exceeds
\* DOMAIN_CONCURRENCY.
C2_OpenContextsWithinCeiling == Cardinality(OpenContexts) <= DOMAIN_CONCURRENCY

\* C3: a failing task never cancels or fails a sibling and never makes
\* run_batch raise: gather never passes a task's exception on, no task is
\* abandoned, and when gather has returned every domain of the batch has run
\* to an outcome of its own.
C3_SiblingsUnaffected ==
  /\ \A r \in Runners : runner[r] # "gather_raised"
  /\ \A d \in Domains : task[d].pc # "abandoned"
  /\ \A r \in Runners :
       runner[r] = "close_browser" =>
         \A d \in batch :
           /\ task[d].pc = "done"
           /\ task[d].outcome \in { "saved", "notfound", "error", "raised" }

C3_Witness ==
  \E r \in Runners :
    /\ runner[r] = "close_browser"
    /\ \E d, e, f \in batch :
         /\ task[d].outcome = "raised"
         /\ task[e].outcome = "error"
         /\ task[f].outcome = "saved"

\* C4: when a task whose browsing context was created has ended, its page and
\* its context are closed.
C4_HandlesReleased ==
  \A d \in Domains :
    (task[d].pc = "done" /\ task[d].context # "none") =>
      (task[d].context = "closed" /\ task[d].page # "open")

\* C5: every stored pattern has a confidence greater than 0; and when
\* detect_search returned a pattern without a confidence field (the Fallback
\* strategy's), the task reports not-found, the domain's pattern row is the
\* one it had when the task started, and its processed flag is false.
C5_NoUnscoredPatternStored ==
  /\ \A d \in Domains : patterns[d] # NoRow => patterns[d].confidence > 0
  /\ \A d \in Domains :
       LET t == task[d]
       IN (t.pc = "close_page" /\ Truthy(t.result)
             /\ "confidence" \notin DOMAIN t.result) =>
            /\ t.outcome = "notfound"
            /\ patterns[d] = t.rowBefore
            /\ ~search_processed[d]

C5_Witness ==
  \E d \in Domains :
    /\ task[d].pc = "close_page"
    /\ Truthy(task[d].result)
    /\ task[d].result.method = "fallback"
    /\ task[d].outcome = "notfound"

\* C6: every domain whose processed flag is true has a stored pattern with
\* confidence greater than 0.
C6_ProcessedHasPattern ==
  \A d \in Domains :
    search_processed[d] => (patterns[d] # NoRow /\ patterns[d].confidence > 0)

\* a save that went through, in a run after one whose save failed part-way
C6_Witness ==
  \E d \in Domains :
    /\ task[d].pc = "close_page"
    /\ task[d].outcome = "saved"
    /\ task[d].saveFault = "none"
    /\ task[d].rowBefore # NoRow
    /\ search_processed[d]

\* C7: when a task ends in failure (logged error, not found, or a store call
\* of the save raised), the domain's pattern row is the one it had when the
\* task started and its processed flag is false.
C7_FailureLeavesStore ==
  \A d \in Domains :
    LET t == task[d]
    IN (t.pc = "close_page"
          /\ (t.outcome \in { "error", "notfound" } \/ t.saveFault # "none")) =>
         (patterns[d] = t.rowBefore /\ ~search_processed[d])

\* C8: at most one execution of main is in progress at any time, and a
\* background_runner that starts while is_running is true ends rejected and
\* leaves is_running as it was.
C8_SingleRun ==
  [][ /\ Cardinality({ r \in Runners : runner'[r] \in InMain }) <= 1
      /\ \A r \in Runners :
           (runner[r] = "queued" /\ is_running /\ runner'[r] # "queued") =>
             (runner'[r] = "rejected" /\ is_running' = is_running) ]_vars

C8_Witness ==
  \E r, q \in Runners :
    /\ runner[r] = "rejected"
    /\ runner[q] \in InMain
    /\ is_running

\* C9: page.goto is called at most twice for a domain; detect_search is only
\* started after a call succeeded; when both calls failed no strategy was
\* executed, the store is untouched for the domain and the error is logged
\* by process_domain, not raised.
C9_NavigationRetry ==
  \A d \in Domains :
    LET t == task[d]
    IN /\ t.attempt <= 1
       /\ (t.pc \in DetectPcs \cup { "wait_for" } \/ t.executed # << >>) => t.success
       /\ (t.pc = "close_page" /\ ~t.success) =>
            /\ t.attempt = 1
            /\ t.executed = << >>
            /\ t.outcome = "error"
            /\ patterns[d] = t.rowBefore
            /\ ~search_processed[d]

C9_Witness ==
  \E d \in Domains :
    /\ task[d].pc = "close_page"
    /\ ~task[d].success
    /\ task[d].attempt = 1
    /\ task[d].outcome = "error"

\* C10: once the discovery timeout has fired for a domain, no selector or
\* template is probed on its page any more, no pattern is written for the
\* domain, and the task ends as a logged error.
C10_TimeoutAborts ==
  [][ \A d \in Domains :
        task[d].timedOut =>
          /\ ~(task[d].pc \in ProbePcs /\ task'[d] # task[d])
          /\ patterns'[d] = patterns[d]
          /\ (task'[d].pc = "close_page" => task'[d].outcome = "error") ]_vars

\* C11: within one execution of main a domain is handed to process_domain
\* once: when main, back from run_batch, takes the next turn of its loop in
\* the same execution, the batch it hands to run_batch holds no domain of the
\* batch before.
C11_HandedOncePerRun ==
  [][ \A r \in Runners :
        (runner[r] = "close_browser" /\ runner'[r] = "launch")
          => batch' \cap batch = {} ]_vars


\* C12: validate_search returns exactly (0, "empty") for every page whose
\* content is shorter than 500 characters, whatever its URL, the
\* original_url, the original_hash and the keyword are, and whatever phrases
\* the content holds.
C12_ShortContentIsEmpty ==
  (call.fn = "validate_search" /\ call.done
     /\ call.args.page.readable
     /\ call.args.page.content.len < EMPTY_CONTENT_LIMIT)
    => call.ret = << 0, "empty" >>

C12_Witness ==
  /\ call.fn = "validate_search" /\ call.done
  /\ call.args.page.readable
  /\ call.args.page.content.len = EMPTY_CONTENT_LIMIT - 1
  /\ call.args.page.content.indicator /\ call.args.page.content.modal
  /\ call.args.page.content.keyword
  /\ HasSearchToken(call.args.page.url)
  /\ call.args.original_url # None /\ call.args.original_hash # None
  /\ call.args.keyword = Some(<< TEST_KEYWORD >>)
  /\ call.ret = << 0, "empty" >>

\* C13: whatever the page, whichever of original_url, original_hash and
\* keyword are passed, and whichever page read fails, the confidence
\* validate_search returns is an integer from 0 to 6.
C13_ConfidenceInRange ==
  (call.fn = "validate_search" /\ call.done)
    => call.ret[1] \in 0..SCORE_CAP

C13_Witness ==
  /\ call.fn = "validate_search" /\ call.done
  /\ RawScore(call.args.page, call.args.original_url,
              call.args.original_hash, call.args.keyword) > SCORE_CAP
  /\ call.ret[1] = SCORE_CAP


\* C14: in the Input strategy, when the network observer has captured a
\* search-like request by the time a selector's fill + Enter + settle is
\* over, execute returns that selector with confidence 4 and result_type
\* "network", whatever the validator would have scored: for the first
\* matching selector when the request was seen by its check, and for the
\* second when it was seen only later and the first was not accepted.
C14_NetworkShortCircuit ==
  (call.fn = "InputSearchStrategy.execute" /\ call.done
     /\ call.site.candidates # {})
    => LET c1 == Min(call.site.candidates)
           rest == call.site.candidates \ { c1 }
           Net(i) == [method |-> "input", pattern |-> INPUT_SELECTORS[i],
                      confidence |-> NETWORK_CONFIDENCE,
                      result_type |-> "network"]
       IN /\ call.site.captured => call.ret = Net(c1)
          /\ (~call.site.captured /\ call.site.capturedLater /\ rest # {})
               => \/ call.ret = Net(Min(rest))
                  \/ /\ call.ret # None
                     /\ call.ret.pattern = INPUT_SELECTORS[c1]
                     /\ call.ret.result_type # "network"

C14_Witness ==
  /\ call.fn = "InputSearchStrategy.execute" /\ call.done
  /\ call.site.candidates # {}
  /\ call.site.captured
  /\ execute_search(call.site.landing, call.site.still, FALSE,
                    call.site.after)[1] > NETWORK_CONFIDENCE
  /\ call.ret.confidence = NETWORK_CONFIDENCE
  /\ call.ret.result_type = "network"

\* C15: on a seed page whose only matching candidate is input[name='q'],
\* where the filled and submitted keyword lands on a URL holding
\* ?q=automationtest123 with ten links and the observer captures nothing,
\* the Input strategy (and so discovery) returns input[name='q'] with
\* confidence 5 and result_type "search-url".
C15_EndToEndInput ==
  (call.fn = "InputSearchStrategy.execute" /\ call.done
     /\ \E i \in 1..Len(INPUT_SELECTORS) :
          INPUT_SELECTORS[i] = "input[name='q']" /\ call.site.candidates = { i }
     /\ ~call.site.captured /\ ~call.site.capturedLater
     /\ call.site.landing = ResultPage
     /\ call.site.still /\ call.site.after = ResultPage)
    => call.ret = [method |-> "input", pattern |-> "input[name='q']",
                   confidence |-> 5, result_type |-> "search-url"]


\* The URL-shape rules of the classifier as the specification words them, on
\* the path with its trailing slashes dropped.
ClaimLastSegment(url) ==
  IF RStripPath(url) = <<>> THEN <<>>
  ELSE RStripPath(url)[Len(RStripPath(url))]
ClaimHasNonArticleExtension(url) ==
  /\ Len(ClaimLastSegment(url)) >= 2
  /\ Lower(ClaimLastSegment(url)[Len(ClaimLastSegment(url))])
       \in { "pdf", "jpg", "jpeg", "png", "gif", "svg", "zip", "xml", "json",
             "css", "js" }
ClaimHasDenylistedSegment(url) ==
  \E i \in DOMAIN url :
    Len(url[i]) = 1 /\ Lower(url[i][1]) \in NON_ARTICLE_PATH_SEGMENTS
ClaimSegmentCount(url) == Cardinality({ i \in DOMAIN url : url[i] # <<>> })
ClaimIsBasePath(url, base_url) == RStripPath(url) = RStripPath(base_url)
ClaimArticleShaped(url, base_url) ==
  /\ ~ClaimHasNonArticleExtension(url)
  /\ ~ClaimHasDenylistedSegment(url)
  /\ ClaimSegmentCount(url) >= 2
  /\ ~ClaimIsBasePath(url, base_url)

\* C16: is_likely_article_url rejects every URL whose last path segment ends
\* in a non-article extension, whether the anchor text is empty, shorter
\* than 20 characters, or 20 characters and longer.
C16_ExtensionRejected ==
  (call.fn = "is_likely_article_url" /\ call.done
     /\ ClaimHasNonArticleExtension(call.url))
    => call.ret[1] = FALSE

C16_Witness ==
  /\ call.fn = "is_likely_article_url" /\ call.done
  /\ ClaimHasNonArticleExtension(call.url)
  /\ ~ClaimHasDenylistedSegment(call.url)
  /\ ClaimSegmentCount(call.url) >= 2
  /\ StrippedLen(call.anchor_text) >= MIN_ANCHOR_TEXT_LEN
  /\ call.ret = << FALSE, "non-article extension" >>

\* C17 (as stated): is_likely_article_url rejects every link whose anchor
\* text has fewer than 20 characters, even when the URL passes every
\* URL-shape rule.
C17_ShortAnchorRejected ==
  (call.fn = "is_likely_article_url" /\ call.done
     /\ ClaimArticleShaped(call.url, call.base_url)
     /\ \/ call.anchor_text = None
        \/ /\ call.anchor_text # None
           /\ call.anchor_text.val.body + call.anchor_text.val.pad
                < MIN_ANCHOR_TEXT_LEN)
    => call.ret[1] = FALSE

\* C17 (amended): is_likely_article_url rejects every link whose anchor
\* text, once trimmed, is not empty and has fewer than 20 characters, even
\* when the URL passes every URL-shape rule; a link with no anchor text, or
\* with blank anchor text, is not rejected for its text.
C17_ShortNonEmptyAnchorRejected ==
  (call.fn = "is_likely_article_url" /\ call.done
     /\ ClaimArticleShaped(call.url, call.base_url))
    => /\ (StrippedLen(call.anchor_text) > 0
             /\ StrippedLen(call.anchor_text) < MIN_ANCHOR_TEXT_LEN)
            => call.ret = << FALSE, "anchor text too short" >>
       /\ StrippedLen(call.anchor_text) = 0
            => call.ret[2] # "anchor text too short"

C17_Witness ==
  /\ call.fn = "is_likely_article_url" /\ call.done
  /\ ClaimArticleShaped(call.url, call.base_url)
  /\ Extension(ClaimLastSegment(call.url)) = ""
  /\ StrippedLen(call.anchor_text) = MIN_ANCHOR_TEXT_LEN - 1
  /\ call.ret[1] = FALSE

\* C18: is_likely_article_url accepts every link that triggers none of the
\* five rejection rules: anchor text present and shorter than 20 characters,
\* a non-article extension on the last segment, a denylisted path segment,
\* fewer than 2 non-empty path segments, a path equal to the base URL's.
C18_AcceptsOtherwise ==
  (call.fn = "is_likely_article_url" /\ call.done
     /\ ~(StrippedLen(call.anchor_text) > 0
            /\ StrippedLen(call.anchor_text) < MIN_ANCHOR_TEXT_LEN)
     /\ ClaimArticleShaped(call.url, call.base_url))
    => call.ret[1] = TRUE


\* The stories a group's selectors find on a page, and the first group that
\* finds any (0 when none does).
ClaimGroupStories(page, g) ==
  { [netloc |-> LinkNetloc(page[sel]), path |-> << << "news" >>, << sel >> >>] :
      sel \in { s \in GroupSelectors(g) : page[s] \in { "story", "lookalike" } } }
ClaimFirstGroup(page) ==
  IF \E g \in 1..NumSelectorGroups : ClaimGroupStories(page, g) # {}
    THEN Min({ g \in 1..NumSelectorGroups : ClaimGroupStories(page, g) # {} })
  ELSE 0

\* C19: extract_article_links returns links from one selector group: the
\* selectors are queried group after group in the fixed order, the result is
\* what the first group k with an accepted link accepts, no selector of a
\* later group is ever queried, and the result is empty when no group has an
\* accepted link.
C19_FirstGroupWins ==
  call.fn = "extract_article_links" =>
    LET k == ClaimFirstGroup(call.page)
        upto == IF k = 0 THEN NumSelectorGroups ELSE k
        order == [i \in 1..Len(call.queried) |->
                    ARTICLE_LINK_SELECTOR_GROUPS
                      [((i - 1) \div MaxGroupSelectors) + 1]
                      [((i - 1) % MaxGroupSelectors) + 1]]
    IN /\ Len(call.queried) <= upto * MaxGroupSelectors
       /\ call.queried = order
       /\ call.done =>
            /\ Len(call.queried) = upto * MaxGroupSelectors
            /\ call.ret = IF k = 0 THEN {} ELSE ClaimGroupStories(call.page, k)

C19_Witness ==
  /\ call.fn = "extract_article_links" /\ call.done
  /\ ClaimFirstGroup(call.page) = 1
  /\ \E g \in 2..NumSelectorGroups : ClaimGroupStories(call.page, g) # {}
  /\ \E s \in GroupSelectors(1) : call.page[s] = "section"
  /\ call.ret = ClaimGroupStories(call.page, 1)


\* The instant a date string names, for the strings the filter can parse.
ClaimParseable(date_str) ==
  date_str # None /\ date_str.val.kind \in { "date", "datetime" }
ClaimInstant(date_str) ==
  IF date_str.val.kind = "date" THEN date_str.val.day * TicksPerDay
  ELSE date_str.val.day * TicksPerDay + date_str.val.tick
         - (IF date_str.val.tz THEN date_str.val.offset ELSE 0)

\* C20: is_within_2_years keeps every date at or after the two-year cutoff,
\* a date equal to the cutoff included, keeps every missing or unparseable
\* date string, and drops, with a reason, exactly the parseable dates
\* strictly before the cutoff.
C20_RecencyFilter ==
  (call.fn = "is_within_2_years" /\ call.done)
    => IF ClaimParseable(call.date_str)
            /\ ClaimInstant(call.date_str) < call.cutoff
         THEN call.ret[1] = FALSE /\ call.ret[2] # ""
         ELSE call.ret = << TRUE, "" >>

C20_Witness ==
  /\ call.fn = "is_within_2_years" /\ call.done
  /\ ClaimParseable(call.date_str)
  /\ call.date_str.val.kind = "datetime"
  /\ ClaimInstant(call.date_str) = call.cutoff
  /\ call.ret[1] = TRUE


\* C21: in the Url strategy, when a template's navigation answers 200, the
\* landed URL holds a search-like token and differs from the base URL, the
\* page has at least 5 anchors and the validator's score for it is 2 or
\* more, execute returns method "url" with that template as pattern and that
\* score as confidence (for the first such template).
C21_UrlPatternReturned ==
  (call.fn = "UrlSearchStrategy.execute" /\ call.done) =>
    LET Passes(i) ==
          /\ call.site.pages = "ok"
          /\ safe_goto(call.site.navs[i]).status = 200
          /\ UrlPrefilters(call.site.page, call.base_url)
          /\ validate_search(call.site.page, Some(call.base_url), None,
                             Some(<< TEST_KEYWORD >>))[1]
               >= URL_CONFIDENCE_THRESHOLD
        passing == { i \in 1..Len(SEARCH_URL_PATTERNS) : Passes(i) }
    IN passing # {} =>
         /\ call.ret # None
         /\ call.ret.method = "url"
         /\ call.ret.pattern = SEARCH_URL_PATTERNS[Min(passing)]
         /\ call.ret.confidence
              = validate_search(call.site.page, Some(call.base_url), None,
                                Some(<< TEST_KEYWORD >>))[1]


\* C22: in the Input strategy, the validation of a selector compares the
\* page after the submission with the URL and content hash of the page as it
\* was before that selector's field was filled: when that comparison meets
\* the threshold (and no request was captured), the selector is returned
\* with its score and label.
C22_PreInteractionBaseline ==
  (call.fn = "InputSearchStrategy.execute" /\ call.done
     /\ call.site.candidates # {}
     /\ ~call.site.captured /\ call.site.still)
    => LET c1 == Min(call.site.candidates)
           v == validate_search(call.site.after, Some(SeedPage.url),
                                get_page_hash(SeedPage),
                                Some(<< TEST_KEYWORD >>))
       IN v[1] >= INPUT_CONFIDENCE_THRESHOLD =>
            call.ret = [method |-> "input", pattern |-> INPUT_SELECTORS[c1],
                        confidence |-> v[1], result_type |-> v[2]]


\* C23: the Input strategy returns a "network" pattern for a selector only
\* when the search-like request was observed during that selector's own
\* pass (a request seen during an earlier selector's pass never gets a later
\* selector accepted), and no request handler of the strategy is left on the
\* page once execute has returned.
C23_NetworkOnlyOwnAttempt ==
  (call.fn = "InputSearchStrategy.execute" /\ call.done) =>
    /\ (call.ret # None /\ call.ret.result_type = "network") =>
         /\ call.site.candidates # {}
         /\ call.ret.pattern = INPUT_SELECTORS[Min(call.site.candidates)]
         /\ call.site.captured
    /\ call.handlers = 0


\* C24: the test keyword is never filled into an element that is not
\* visible or whose type is email, password, tel or number; here for the
\* fills of the Icon strategy's sub-attempts.
C24_NoFillOfSkippedElements ==
  (call.fn = "IconSearchStrategy.execute" /\ call.done) =>
    \A el \in call.fills :
      el.visible /\ el.type \notin { "email", "password", "tel", "number" }


\* The validator's answer for a sub-attempt of the Icon strategy that fills
\* a field: for the first one the page is compared with the page the click
\* revealed, for a later one with the page the fill before it left.
ClaimIconFirst(site) ==
  validate_search(site.after, Some(site.revealed.url),
                  get_page_hash(site.revealed), Some(<< TEST_KEYWORD >>))
ClaimIconLater(site) ==
  validate_search(site.after, Some(site.after.url),
                  get_page_hash(site.after), Some(<< TEST_KEYWORD >>))
ClaimIconFilled(site) ==
  { i \in 1..Len(INPUT_SELECTORS) :
      site.elements[i] # None /\ Fillable(site.elements[i]) }
ClaimIconVisible(site) ==
  { k \in 1..Len(ICON_SELECTORS) : site.icons[k] = "visible" }
ClaimIconAccepted(site) ==
  IF ClaimIconVisible(site) = {} \/ ClaimIconFilled(site) = {} THEN <<>>
  ELSE IF ClaimIconFirst(site)[1] >= 3 THEN << ClaimIconFirst(site) >>
  ELSE IF Cardinality(ClaimIconFilled(site)) > 1
            /\ ClaimIconLater(site)[1] >= 3
    THEN << ClaimIconLater(site) >>
  ELSE <<>>

\* C25: a pattern returned by the Icon strategy has method "icon", the
\* clicked icon selector as pattern, a confidence from 3 to 6 that is the
\* validator's score of the first accepted sub-attempt, and that
\* sub-attempt's result_type; the strategy returns None exactly when no
\* sub-attempt of a visible icon scores 3 or more.
C25_IconPattern ==
  (call.fn = "IconSearchStrategy.execute" /\ call.done) =>
    LET accepted == ClaimIconAccepted(call.site)
    IN /\ call.ret = None <=> accepted = <<>>
       /\ call.ret # None =>
            /\ call.ret.method = "icon"
            /\ call.ret.pattern
                 = ICON_SELECTORS[Min(ClaimIconVisible(call.site))]
            /\ call.ret.confidence \in 3..6
            /\ call.ret.confidence = accepted[1][1]
            /\ call.ret.result_type = accepted[1][2]
            /\ DOMAIN call.ret
                 = { "method", "pattern", "confidence", "result_type" }

C25_Witness ==
  /\ call.fn = "IconSearchStrategy.execute" /\ call.done
  /\ call.ret # None
  /\ call.ret.confidence = SCORE_CAP
  /\ call.ret.result_type = "redirect"
  /\ 1 \notin ClaimIconFilled(call.site)


\* The case of the AJAX rule: both baselines supplied, the URL equal to
\* original_url but for trailing slashes, a content hash that differs.
ClaimAjaxCase ==
  /\ call.fn = "validate_search" /\ call.done
  /\ TruthyStr(call.args.original_url)
  /\ call.args.original_hash # None
  /\ RStripSlash(call.args.page.url) = RStripSlash(call.args.original_url.val)
  /\ get_page_hash(call.args.page) # None
  /\ get_page_hash(call.args.page) # call.args.original_hash

\* C26 (as worded): in the case of the AJAX rule the score is at least 3 and
\* the label is "ajax" unless the page holds a modal word.
C26_AjaxMeetsThreshold ==
  ClaimAjaxCase =>
    /\ call.ret[1] >= 3
    /\ call.ret[2] = IF call.args.page.content.modal THEN "modal" ELSE "ajax"

\* C26: for a page with at least 500 characters of content, in the case of
\* the AJAX rule the content-change point and the two AJAX points both
\* count, so the score is at least 3 (the Input and Icon threshold), and the
\* label is "ajax" unless the page holds a modal word.
C26_AjaxMeetsThresholdOnLongPage ==
  (ClaimAjaxCase /\ call.args.page.content.len >= EMPTY_CONTENT_LIMIT) =>
    /\ call.ret[1] >= 3
    /\ call.ret[1] >= INPUT_CONFIDENCE_THRESHOLD
    /\ call.ret[1] >= ICON_CONFIDENCE_THRESHOLD
    /\ call.ret[2] = IF call.args.page.content.modal THEN "modal" ELSE "ajax"

C26_Witness ==
  /\ ClaimAjaxCase
  /\ call.args.page.content.len >= EMPTY_CONTENT_LIMIT
  /\ call.args.page.url # call.args.original_url.val
  /\ call.ret = << 3, "ajax" >>

\* C27: for a page with at least 500 characters of content, a modal word in
\* the content makes the label "modal" whatever the earlier rules chose, and
\* the score is the one the same page gets without the modal word.
C27_ModalOverridesLabel ==
  (call.fn = "validate_search" /\ call.done
     /\ call.args.page.readable
     /\ call.args.page.content.len >= EMPTY_CONTENT_LIMIT
     /\ call.args.page.content.modal)
    => LET plain == [call.args.page EXCEPT !.content.modal = FALSE]
           \* a baseline hash that is to the plain page what original_hash
           \* is to the page: absent, equal or different
           hash == IF call.args.original_hash = None THEN None
                   ELSE IF call.args.original_hash
                             = get_page_hash(call.args.page)
                     THEN get_page_hash(plain)
                   ELSE Some(call.args.page.content)
       IN /\ call.ret[2] = "modal"
          /\ call.ret[1] = validate_search(plain, call.args.original_url,
                                           hash, call.args.keyword)[1]

C27_Witness ==
  /\ call.fn = "validate_search" /\ call.done
  /\ call.args.page.content.len >= EMPTY_CONTENT_LIMIT
  /\ call.args.page.content.modal
  /\ ClaimAjaxCase
  /\ call.ret = << 3, "modal" >>

\* C28: a failure of any read of the page in validate_search (the first
\* content read, a content read for a hash, the anchor query) makes it
\* return exactly (0, "error").
C28_ReadFailureIsError ==
  (call.fn = "validate_search" /\ call.done) =>
    LET page == call.args.page
        scored == page.readable /\ page.content.len >= EMPTY_CONTENT_LIMIT
        failed == \/ ~page.readable
                  \/ scored /\ call.args.original_hash # None /\ ~page.hashable
                  \/ scored /\ ~page.links.ok
    IN failed => call.ret = << 0, "error" >>


\* C29: save_search_pattern is atomic: once a call has returned, normally or
\* after a store call raised, either the pattern row is upserted and the
\* domain is marked processed, or the row and the flag are as they were.
C29_SaveAtomic ==
  (call.fn = "save_search_pattern" /\ call.done) =>
    \/ call.ret = << Row(call.base_url_id, call.result), TRUE >>
    \/ call.ret = << call.row, call.flag >>


\* A task holds a slot of the semaphore from its acquire to the end of
\* process_domain.
ClaimHoldsSlot(d) ==
  d \in batch /\ task[d].pc \notin { "idle", "acquire", "done", "abandoned" }

\* C30: a task opens its context only while it holds a slot; the free slots
\* are the ceiling less the tasks inside process_domain, whichever way the
\* others left it (never more tasks inside than the ceiling); every task of
\* a batch that waits for a slot gets one and finishes; and the free slots
\* are back at the ceiling when gather has returned.
C30_SlotsAndProgress ==
  /\ [][ \A d \in Domains :
           (task[d].context # "open" /\ task'[d].context = "open")
             => (ClaimHoldsSlot(d) /\ semaphore < DOMAIN_CONCURRENCY) ]_vars
  /\ [](Gathering =>
          /\ semaphore + Cardinality({ d \in Domains : ClaimHoldsSlot(d) })
               = DOMAIN_CONCURRENCY
          /\ semaphore >= 0)
  /\ Gathering ~> (\A d \in batch : task[d].pc = "done")
  /\ [](\A r \in Runners :
          runner[r] = "close_browser" => semaphore = DOMAIN_CONCURRENCY)

C30_Witness ==
  /\ \E r \in Runners : runner[r] = "close_browser"
  /\ Cardinality(batch) > DOMAIN_CONCURRENCY
  /\ \A d \in batch : task[d].pc = "done"
  /\ \E d \in batch : task[d].outcome = "raised"
  /\ \E d \in batch : task[d].outcome = "saved"
  /\ semaphore = DOMAIN_CONCURRENCY


\* C31: every URL extract_article_links returns has the base URL's host, is
\* accepted by is_likely_article_url and appears once in the result (the
\* result is the set of the keys of a dict).
C31_SameHostAccepted ==
  (call.fn = "extract_article_links" /\ call.done) =>
    \A url \in call.ret :
      /\ url.netloc = BaseNetloc
      /\ is_likely_article_url(url.path, LinkText, call.base_url)[1]


\* The raw date strings that one of the formats matches, white space around
\* them and text after the 25th character apart.
ClaimMatchesFormat(raw) ==
  raw # None /\ Strptime(Truncate(Strip(raw.val), DATE_PREFIX_LEN)) # None

\* C33 (as worded): _parse_date returns a string that none of its formats
\* matches as it was given, and returns None only when the string is missing
\* or empty.
C33_UnparsedUnchanged ==
  (call.fn = "_parse_date" /\ call.done) =>
    /\ (call.raw # None /\ call.raw.val # <<>> /\ ~ClaimMatchesFormat(call.raw))
         => call.ret = call.raw
    /\ call.ret = None <=> (call.raw = None \/ call.raw.val = <<>>)

\* C33: _parse_date returns a string that none of its formats matches
\* stripped of the white space at its ends and otherwise as it was given,
\* and returns None only when the string is missing or empty.
C33_UnparsedStripped ==
  (call.fn = "_parse_date" /\ call.done) =>
    /\ (call.raw # None /\ call.raw.val # <<>> /\ ~ClaimMatchesFormat(call.raw))
         => call.ret = Some(Strip(call.raw.val))
    /\ call.ret = None <=> (call.raw = None \/ call.raw.val = <<>>)

C33_Witness ==
  /\ call.fn = "_parse_date" /\ call.done
  /\ call.raw = Some(<< " ", "word", " " >>)
  /\ call.ret = Some(<< "word" >>)


\* The first selector of a list that yields a match, as the specification
\* words it (0: none): a non-empty text for the title and the date, more
\* than 100 characters for the body.
ClaimFirstTitle(page) ==
  LET m == { i \in 1..NumDetailSelectors :
               page.title[i].kind = "text" /\ ~page.title[i].blank }
  IN IF m = {} THEN 0 ELSE Min(m)
ClaimFirstDate(page) ==
  LET m == { i \in 1..NumDetailSelectors :
               page.date[i].kind = "raw" /\ Len(page.date[i].raw) > 0 }
  IN IF m = {} THEN 0 ELSE Min(m)
ClaimFirstBody(page) ==
  LET m == { i \in 1..NumDetailSelectors :
               page.body[i].kind = "text" /\ page.body[i].len > 100 }
  IN IF m = {} THEN 0 ELSE Min(m)

\* C32: in extract_article_details the title, the date and the body each
\* come from the first selector of their list that yields a match, the
\* selectors after it are not consulted, one that raises before it is passed
\* over, the title is the page's title tag when no selector matches (None
\* when reading it raises), and a field with no match is None.
C32_FirstSelectorWins ==
  (call.fn = "extract_article_details" /\ call.done
     /\ call.page.response = "ok")
    => LET page == call.page
           t == ClaimFirstTitle(page)
           d == ClaimFirstDate(page)
           b == ClaimFirstBody(page)
       IN /\ t > 0 => /\ call.ret.article_title = Some(Text(TITLE_SELECTORS[t]))
                      /\ call.ret.consulted.title = 1..t
          /\ t = 0 => /\ call.ret.consulted.title = 1..NumDetailSelectors
                      /\ call.ret.article_title =
                           IF page.page_title = Raises THEN None
                           ELSE IF page.page_title.blank THEN Some(Text(""))
                           ELSE Some(Text("title"))
          /\ d > 0 => /\ call.ret.article_date
                           = _parse_date(Some(page.date[d].raw))
                      /\ call.ret.consulted.date = 1..d
          /\ d = 0 => /\ call.ret.article_date = None
                      /\ call.ret.consulted.date = 1..NumDetailSelectors
          /\ b > 0 => /\ call.ret.extracted_text = Some(Text(TEXT_SELECTORS[b]))
                      /\ call.ret.consulted.body = 1..b
          /\ b = 0 => /\ call.ret.extracted_text = None
                      /\ call.ret.consulted.body = 1..NumDetailSelectors

C32_Witness ==
  /\ call.fn = "extract_article_details" /\ call.done
  /\ call.page.response = "ok"
  /\ call.page.title[1] = Raises /\ ClaimFirstTitle(call.page) = 2
  /\ call.page.body[1].kind = "text" /\ ClaimFirstBody(call.page) = 2
  /\ ClaimFirstDate(call.page) = 1
  /\ call.ret.article_title = Some(Text(TITLE_SELECTORS[2]))
  /\ call.ret.article_date = Some(<< "2024-01-05 00:00:00+05:30" >>)
  /\ call.ret.extracted_text = Some(Text(TEXT_SELECTORS[2]))
  /\ call.ret.consulted.date = { 1 }


\* C34: is_running is true for as long as a run that background_runner
\* started is inside main and false once it has ended, by main returning or
\* by an exception leaving it; so a trigger that starts after the end is not
\* rejected: it enters main.
C34_FlagFollowsRun ==
  /\ [](is_running <=> \E r \in Runners : runner[r] \in InMain)
  /\ [][ \A r \in Runners :
           /\ (runner[r] \in InMain /\ runner'[r] \notin InMain) => ~is_running'
           /\ (runner[r] = "queued" /\ runner'[r] # "queued"
                 /\ \A q \in Runners : runner[q] \notin InMain)
                => runner'[r] \in InMain \cup { "returned" } ]_vars

C34_Witness ==
  \E r, q \in Runners :
    /\ runner[r] = "launch_failed"
    /\ runner[q] \in InMain
    /\ is_running


\* C35: a triggered run ends: as every batch ends, main eventually returns
\* (or an exception leaves it) and is_running is false again, also when
\* discovery found no pattern for a fetched domain.
C35_RunTerminates ==
  (call.fn = "background_runner" /\ call.pc = "fetch")
    ~> (call.pc \in { "returned", "raised" } /\ ~is_running)


\* C36: the Url strategy navigates on its temporary page only, never on the
\* domain's main page; each template tried is navigated to once with the
\* fast timeout and at most once more with the slow one; and
\* temp_page.close() is called on every way out of execute once the page
\* exists, which leaves it closed unless the close itself raises.
C36_TemporaryPageOnly ==
  (call.fn = "UrlSearchStrategy.execute" /\ call.done) =>
    LET e == call.effects
    IN /\ e.page_gotos = <<>>
       /\ \A i \in DOMAIN e.temp_gotos :
            e.temp_gotos[i] \in { << FAST_TIMEOUT >>,
                                  << FAST_TIMEOUT, SLOW_TIMEOUT >> }
       /\ call.site.pages # "new_page_raises" =>
            /\ e.close_calls = 1
            /\ DOMAIN e.temp_gotos = 1..Len(SEARCH_URL_PATTERNS)
            /\ call.site.pages = "ok" => e.temp_page = "closed"
       /\ call.site.pages = "new_page_raises" =>
            e.temp_page = "none" /\ e.temp_gotos = <<>>

C36_Witness ==
  /\ call.fn = "UrlSearchStrategy.execute" /\ call.done
  /\ call.site.pages = "ok"
  /\ call.site.navs[1].raising >= 2
  /\ call.effects.temp_gotos[1] = << FAST_TIMEOUT, SLOW_TIMEOUT >>
  /\ call.effects.temp_page = "closed"


\* C37: driven with a url pattern as the discovery stores it (a template of
\* SEARCH_URL_PATTERNS, with the {} placeholder) and a keyword k,
\* try_url_pattern navigates to the base URL joined with the template in
\* which the placeholder is replaced by the URL-encoded k.
C37_StoredUrlPatternRoundTrips ==
  (/\ call.fn = "try_url_pattern" /\ call.done
   /\ \E i \in 1..Len(SEARCH_URL_PATTERNS) :
        call.url_template = SEARCH_URL_PATTERNS[i]) =>
    call.ret.url = RStripSlash(call.base_url)
                     \o Replace(TemplateTokens[call.url_template], "{}",
                                quote_plus(call.keyword))


ClaimStoredSucceeds ==
  /\ call.known_pattern.method \in { "url", "input", "icon", "fallback" }
  /\ call.site.stored_ok

ClaimWorks(i) == i # 0 /\ << i, "ok" >> \in call.site.events

C39_EveryRowInsertedOnce ==
  call.fn = "main.phase2" =>
    /\ Len(call.batch) < INSERT_BATCH_SIZE
    /\ call.attempted \o call.batch = call.output_rows
    /\ call.total_inserted + call.total_skipped = Len(call.attempted)
    /\ \A i \in DOMAIN call.calls :
         /\ call.calls[i].inserted + call.calls[i].skipped
              = Len(call.calls[i].rows)
         /\ Len(call.calls[i].rows) = INSERT_BATCH_SIZE
              \/ (i = Len(call.calls) /\ call.pc = "done"
                  /\ call.calls[i].rows # <<>>)
    /\ call.pc = "done" =>
         /\ call.batch = <<>>
         /\ call.attempted = call.output_rows
         /\ call.total_inserted + call.total_skipped = Len(call.output_rows)
         /\ \A r \in 1..call.article_urls :
              Cardinality({ i \in DOMAIN call.attempted :
                              call.attempted[i] = r }) <= 1

C39_Witness ==
  /\ call.fn = "main.phase2" /\ call.pc = "done"
  /\ Len(call.calls) = 2
  /\ Len(call.calls[1].rows) = INSERT_BATCH_SIZE
  /\ Len(call.calls[2].rows) = 1
  /\ Len(call.output_rows) < call.article_urls
  /\ call.calls[1].skipped = 1
  /\ \E r \in call.faulty :
       \E i, j \in DOMAIN call.attempted :
         /\ i < j /\ j <= INSERT_BATCH_SIZE
         /\ call.attempted[i] = r

====
